---- MODULE Spec2Model ----
(***************************************************************************)
(* Model of the recommend / side-quest backend of gd-where-to-yichang.     *)
(*                                                                         *)
(* Text is modelled as a sequence of characters; every Chinese character   *)
(* is written as a short ASCII name (gong yuan = "公园"), " " is "sp" and  *)
(* ";" is "sc".  A JavaScript regular expression made of literal           *)
(* alternatives is modelled as the set of its alternatives, and            *)
(* RegExp.test as "some alternative is a contiguous subsequence".          *)
(* Fractions are kept as scaled integers (affinity x100, novelty x100).    *)
(***************************************************************************)
EXTENDS Integers, Sequences, FiniteSets, TLC

\* ------------------------------------------------------------------------
\* Text helpers
\* ------------------------------------------------------------------------

\* String.prototype.includes on character sequences
Includes(text, pat) ==
    \E i \in 0..(Len(text) - Len(pat)) :
        \A j \in 1..Len(pat) : text[i + j] = pat[j]

\* RegExp.test for a regular expression that is an alternation of literals
Test(pats, text) == \E p \in pats : Includes(text, p)

IsSpace(c) == c = "sp"

RECURSIVE TrimLeft(_)
TrimLeft(t) == IF t # <<>> /\ IsSpace(Head(t)) THEN TrimLeft(Tail(t)) ELSE t

RECURSIVE TrimRight(_)
TrimRight(t) ==
    IF t # <<>> /\ IsSpace(t[Len(t)]) THEN TrimRight(SubSeq(t, 1, Len(t) - 1)) ELSE t

\* String.prototype.trim
Trim(t) == TrimRight(TrimLeft(t))

\* Array.prototype.join with a separator text
RECURSIVE Join(_, _)
Join(ts, sep) ==
    IF ts = <<>> THEN <<>>
    ELSE IF Len(ts) = 1 THEN ts[1]
    ELSE ts[1] \o sep \o Join(Tail(ts), sep)

\* Array.from(new Set(xs)): first occurrences, in order
RECURSIVE Dedup(_)
Dedup(xs) ==
    IF xs = <<>> THEN <<>>
    ELSE LET r == Dedup(SubSeq(xs, 1, Len(xs) - 1))
             x == xs[Len(xs)]
         IN IF \E i \in 1..Len(r) : r[i] = x THEN r ELSE Append(r, x)

\* Array.prototype.slice(0, n)
Slice0(xs, n) == SubSeq(xs, 1, IF Len(xs) < n THEN Len(xs) ELSE n)

\* toLowerCase on the characters the model uses (CJK characters have no case)
LowerChar(c) == IF c = "M" THEN "m" ELSE IF c = "A" THEN "a" ELSE c

\* normalizeText: lower-case and drop all white space
RECURSIVE normalizeText(_)
normalizeText(s) ==
    IF s = <<>> THEN <<>>
    ELSE IF IsSpace(Head(s)) THEN normalizeText(Tail(s))
    ELSE <<LowerChar(Head(s))>> \o normalizeText(Tail(s))

\* Math.max(min, Math.min(max, n))
clamp(n, lo, hi) ==
    LET m == IF hi < n THEN hi ELSE n IN IF lo > m THEN lo ELSE m

Max2(a, b) == IF a > b THEN a ELSE b
Min2(a, b) == IF a < b THEN a ELSE b
Abs(a) == IF a < 0 THEN -a ELSE a

\* Math.round(num / den) for num >= 0, den > 0 (round half up)
RoundDiv(num, den) == (2 * num + den) \div (2 * den)

\* ------------------------------------------------------------------------
\* Keywords (place-type tokens) used by the code
\* ------------------------------------------------------------------------
kw ==
    [ WenQuan |-> <<"wen", "quan">>,   \* 温泉
      TangQuan |-> <<"tang", "quan">>,   \* 汤泉
      PaoTang |-> <<"pao", "tang">>,   \* 泡汤
      KaFei |-> <<"ka", "fei">>,   \* 咖啡
      KaFeiGuan |-> <<"ka", "fei", "guan">>,   \* 咖啡馆
      YeXiao |-> <<"ye", "xiao">>,   \* 夜宵
      ShaoKao |-> <<"shao", "kao">>,   \* 烧烤
      KaoChuan |-> <<"kao", "chuan">>,   \* 烤串
      KaoRou |-> <<"kao", "rou">>,   \* 烤肉
      ChuanChuanXiang |-> <<"chuan", "chuan", "xiang">>,   \* 串串香
      HuoGuo |-> <<"huo", "guo">>,   \* 火锅
      ChongQingHuoGuo |-> <<"chong", "qing", "huo", "guo">>,   \* 重庆火锅
      NiuRouHuoGuo |-> <<"niu", "rou", "huo", "guo">>,   \* 牛肉火锅
      ShuanRou |-> <<"shuan", "rou">>,   \* 涮肉
      MaLaTang |-> <<"ma", "la", "tang4">>,   \* 麻辣烫
      ShangChang |-> <<"shang", "chang">>,   \* 商场
      JiangBian |-> <<"jiang", "bian">>,   \* 江边
      GongYuan |-> <<"gong", "yuan">>,   \* 公园
      DianYingYuan |-> <<"dian", "ying", "yuan4">>,   \* 电影院
      BoWuGuan |-> <<"bo", "wu", "guan">>,   \* 博物馆
      ZhanGuan |-> <<"zhan", "guan">>,   \* 展馆
      TianPin |-> <<"tian", "pin">>,   \* 甜品
      XiaoChi |-> <<"xiao3", "chi">>,   \* 小吃
      YeShi |-> <<"ye", "shi5">>,   \* 夜市
      JingDian |-> <<"jing", "dian3">> ]   \* 景点

defaultCategoryKeywords ==
    << kw.KaFei, kw.TianPin, kw.XiaoChi, kw.YeShi, kw.GongYuan, kw.JiangBian,
       kw.ShangChang, kw.DianYingYuan, kw.BoWuGuan, kw.ZhanGuan, kw.JingDian >>

\* ------------------------------------------------------------------------
\* Intent resolver
\* ------------------------------------------------------------------------
reMood ==
    [ Spa |-> { kw.WenQuan, kw.PaoTang, kw.TangQuan, <<"han", "zheng">> },
      Coffee |-> { kw.KaFei, <<"na", "tie">>, <<"mei", "shi">> },
      Night |-> { kw.YeXiao, <<"xiao", "ye">>, kw.ShaoKao },
      Bbq |-> { kw.ShaoKao, kw.KaoChuan, kw.KaoRou, <<"lu", "chuan">>, <<"chuan", "chuan">> },
      Hotpot |-> { kw.HuoGuo, kw.ShuanRou, <<"shuan", "guo">>, kw.MaLaTang, kw.ChuanChuanXiang },
      Mall |-> { <<"guang", "jie">>, kw.ShangChang, <<"shi4", "nei">> },
      Walk |-> { <<"san", "bu">>, <<"zou", "zou">> },
      Movie |-> { <<"dian", "ying">>, kw.DianYingYuan },
      Exhibit |-> { <<"zhan">>, kw.BoWuGuan, <<"mei", "shu", "guan">>, kw.ZhanGuan } ]

AddIf(out, cond, toks) == IF cond THEN out \o toks ELSE out

MaxKeywords == 6
ShortMoodLen == 8

heuristicKeywords(mood) ==
    LET m == Trim(mood)
        o1 == AddIf(<<>>, Test(reMood.Spa, m), <<kw.WenQuan, kw.TangQuan, kw.PaoTang>>)
        o2 == AddIf(o1, Test(reMood.Coffee, m), <<kw.KaFei, kw.KaFeiGuan>>)
        o3 == AddIf(o2, Test(reMood.Night, m), <<kw.YeXiao, kw.ShaoKao>>)
        o4 == AddIf(o3, Test(reMood.Bbq, m),
                    <<kw.ShaoKao, kw.KaoChuan, kw.KaoRou, kw.ChuanChuanXiang>>)
        o5 == AddIf(o4, Test(reMood.Hotpot, m),
                    <<kw.HuoGuo, kw.ChongQingHuoGuo, kw.NiuRouHuoGuo, kw.ShuanRou, kw.MaLaTang>>)
        o6 == AddIf(o5, Test(reMood.Mall, m), <<kw.ShangChang>>)
        o7 == AddIf(o6, Test({kw.JiangBian}, m), <<kw.JiangBian>>)
        o8 == AddIf(o7, Test({kw.GongYuan}, m), <<kw.GongYuan>>)
        o9 == AddIf(o8, Test(reMood.Walk, m), <<kw.JiangBian, kw.GongYuan>>)
        o10 == AddIf(o9, Test(reMood.Movie, m), <<kw.DianYingYuan>>)
        o11 == AddIf(o10, Test(reMood.Exhibit, m), <<kw.BoWuGuan, kw.ZhanGuan>>)
        out == IF o11 = <<>> /\ Len(m) <= ShortMoodLen THEN <<m>> ELSE o11
    IN IF m = <<>> THEN <<>> ELSE Slice0(Dedup(out), MaxKeywords)

rePrimary ==
    [ Spa |-> reMood.Spa,
      Movie |-> reMood.Movie,
      Culture |-> { kw.BoWuGuan, kw.ZhanGuan, <<"mei", "shu", "guan">>, <<"zhan", "lan">>, <<"kan", "zhan">> },
      Park |-> { kw.GongYuan, kw.JingDian, <<"feng", "jing">>, kw.JiangBian, <<"san", "bu">>, <<"zou", "zou">>, <<"liu", "wan">>, <<"pai", "zhao">> },
      Shopping |-> { kw.ShangChang, <<"guang", "jie">>, <<"gou", "wu">> },
      Food |-> { <<"chi">>, <<"he">>, kw.KaFei, kw.TianPin, kw.XiaoChi, kw.YeXiao, <<"xiao", "ye">>, kw.HuoGuo, kw.ShaoKao, kw.KaoChuan, kw.KaoRou } ]

inferIntentPrimary(mood, intentKeywords) ==
    LET text == Trim(mood \o <<"sp">> \o Join(intentKeywords, <<"sp">>))
    IN IF text = <<>> THEN [primary |-> "other", strong |-> FALSE]
       ELSE IF Test(rePrimary.Spa, text) THEN [primary |-> "spa", strong |-> TRUE]
       ELSE IF Test(rePrimary.Movie, text) THEN [primary |-> "movie", strong |-> TRUE]
       ELSE IF Test(rePrimary.Culture, text) THEN [primary |-> "culture", strong |-> TRUE]
       ELSE IF Test(rePrimary.Park, text) THEN [primary |-> "park", strong |-> TRUE]
       ELSE IF Test(rePrimary.Shopping, text) THEN [primary |-> "shopping", strong |-> TRUE]
       ELSE IF Test(rePrimary.Food, text) THEN [primary |-> "food", strong |-> TRUE]
       ELSE [primary |-> "other", strong |-> FALSE]

\* ------------------------------------------------------------------------
\* Category affinity (x100) and dwell-time inference
\* ------------------------------------------------------------------------
SplitIdx(t) ==
    IF \E i \in 1..Len(t) : t[i] = "sc"
    THEN CHOOSE i \in 1..Len(t) : t[i] = "sc" /\ \A j \in 1..(i - 1) : t[j] # "sc"
    ELSE Len(t) + 1

\* String(typeStr || '').split(';')[0] || ''
poiTopType(typeStr) == SubSeq(typeStr, 1, SplitIdx(typeStr) - 1)

topFood == <<"can", "yin", "fu", "wu4">>               \* 餐饮服务
topScenic == <<"feng", "jing", "ming", "sheng">>       \* 风景名胜
topShopping == <<"gou", "wu", "fu", "wu4">>            \* 购物服务
topCulture == <<"ke", "jiao", "wen2", "hua", "fu", "wu4">>   \* 科教文化服务

reIs ==
    [ Food |-> { topFood, kw.XiaoChi, kw.ShaoKao, kw.HuoGuo, kw.KaFei, kw.TianPin },
      ParkFull |-> { kw.GongYuan, <<"gong", "yuan", "guang3", "chang">>, kw.JiangBian, <<"bin", "jiang">>, <<"lv", "di">>, <<"shi1", "di">> },
      ParkCategory |-> { topScenic, <<"lv3", "you", "jing", "dian3">>, <<"gong", "yuan", "guang3", "chang">> },
      Shopping |-> { kw.ShangChang, <<"gou", "wu">>, <<"bu", "xing", "jie">> },
      Culture |-> { kw.BoWuGuan, kw.ZhanGuan, <<"mei", "shu", "guan">>, <<"tu", "shu1", "guan">> },
      Movie |-> { kw.DianYingYuan },
      Spa |-> { kw.WenQuan, kw.TangQuan, <<"han", "zheng">>, <<"yu", "chang">> } ]

poiAffinity(primary, poi) ==
    LET name == poi.name
        category == poi.category
        top == poiTopType(category)
        full == name \o <<"sp">> \o category
        isFood == top = topFood \/ Test(reIs.Food, full)
        isPark == Test(reIs.ParkFull, full) \/ top = topScenic \/ Test(reIs.ParkCategory, category)
        isShopping == top = topShopping \/ Test(reIs.Shopping, full)
        isCulture == top = topCulture \/ Test(reIs.Culture, full)
        isMovie == Test(reIs.Movie, full)
        isSpa == Test(reIs.Spa, full)
    IN CASE primary = "park" ->
              IF isPark THEN 100 ELSE IF isFood THEN -85 ELSE IF isShopping THEN -40 ELSE -15
         [] primary = "food" ->
              IF isFood THEN 100 ELSE IF isPark THEN -20 ELSE IF isCulture THEN -35 ELSE -15
         [] primary = "shopping" ->
              IF isShopping THEN 100 ELSE IF isFood THEN 10 ELSE IF isPark THEN -40 ELSE -15
         [] primary = "culture" ->
              IF isCulture THEN 100 ELSE IF isFood THEN -40 ELSE -15
         [] primary = "movie" ->
              IF isMovie THEN 100 ELSE IF isFood THEN 10 ELSE -20
         [] primary = "spa" ->
              IF isSpa THEN 100 ELSE IF isFood THEN -40 ELSE -20
         [] OTHER -> 0

reStay ==
    [ Spa |-> reMood.Spa,
      Movie |-> reMood.Movie,
      Meal |-> { kw.HuoGuo, kw.ShuanRou, kw.ShaoKao, kw.KaoChuan, kw.YeXiao, <<"xiao", "ye">>, kw.MaLaTang },
      Coffee |-> { kw.KaFei, kw.TianPin },
      Mall |-> { kw.ShangChang, <<"guang", "jie">> },
      Park |-> { kw.JiangBian, kw.GongYuan, <<"san", "bu">>, <<"zou", "zou">> },
      Museum |-> { kw.BoWuGuan, kw.ZhanGuan, <<"mei", "shu", "guan">> } ]

inferMinStayMin(mood, intentKeywords, availableMin) ==
    LET t == mood \o Join(intentKeywords, <<"sp">>)
        minStay ==
            IF Test(reStay.Spa, t) THEN 120
            ELSE IF Test(reStay.Movie, t) THEN 120
            ELSE IF Test(reStay.Meal, t) THEN 60
            ELSE IF Test(reStay.Coffee, t) THEN 45
            ELSE IF Test(reStay.Mall, t) THEN 90
            ELSE IF Test(reStay.Park, t) THEN 30
            ELSE IF Test(reStay.Museum, t) THEN 60
            ELSE 30
    IN clamp(minStay, 0, Max2(0, availableMin - 10))

\* ------------------------------------------------------------------------
\* Geo math
\* ------------------------------------------------------------------------
\* A time of day "HH:mm" is the pair of numbers split(':').map(Number) yields.
minutesBetween(startHHmm, endHHmm) ==
    LET s == startHHmm[1] * 60 + startHHmm[2]
        e == endHHmm[1] * 60 + endHHmm[2]
    IN IF e >= s THEN e - s ELSE 24 * 60 - s + e

metersPerMin(mode) == IF mode = "walk" THEN 85 ELSE IF mode = "bike" THEN 250 ELSE 550

\* a radius without the final clamp (variant for sensitivity)
suggestedRadiusUnclamped(mode, availableMinutes) ==
    clamp(availableMinutes \div 4, 8, 60) * metersPerMin(mode)

\* Math.floor(availableMinutes * 0.25) is availableMinutes \div 4
suggestedRadiusMeters(mode, availableMinutes) ==
    LET oneWayMin == clamp(availableMinutes \div 4, 8, 60)
    IN clamp(oneWayMin * metersPerMin(mode), 800, 12000)

\* clamp(Math.round(safeAvailableMin * 0.2), 10, 30)
idealOneWayOf(safeAvailableMin) == clamp(RoundDiv(safeAvailableMin, 5), 10, 30)

\* ------------------------------------------------------------------------
\* The geospatial provider's places (the world around the origin)
\* ------------------------------------------------------------------------
sc == <<"sc">>

\* 滨江公园 / 风景名胜;公园广场;公园 / 沿江大道
poiPark ==
    [ id |-> "park",
      name |-> <<"bin", "jiang", "gong", "yuan">>,
      type |-> topScenic \o sc \o <<"gong", "yuan", "guang3", "chang">> \o sc \o kw.GongYuan,
      address |-> <<"yan", "jiang", "da", "dao">> ]
\* 老李烧烤 / 餐饮服务;中餐厅 / 公园路
poiBbq ==
    [ id |-> "bbq",
      name |-> <<"lao", "li", "shao", "kao">>,
      type |-> topFood \o sc \o <<"zhong", "can", "ting">>,
      address |-> <<"gong", "yuan", "lu4">> ]
\* 星咖啡 / 餐饮服务;咖啡厅 / 解放路
poiCafe ==
    [ id |-> "cafe",
      name |-> <<"xing", "ka", "fei">>,
      type |-> topFood \o sc \o <<"ka", "fei", "ting">>,
      address |-> <<"jie3", "fang", "lu4">> ]

\* distances (meters from the origin) a place of the catalogue may lie at
PlaceDistances(id) ==
    CASE id = "park" -> {750, 3000}
      [] id = "bbq" -> {300, 2000}
      [] OTHER -> {900}

Placed(p, d) ==
    [ id |-> p.id, name |-> p.name, type |-> p.type, address |-> p.address,
      location |-> p.id, distance |-> d,
      \* the cafe's search result carries no "distance" field
      reportsDistance |-> p.id # "cafe" ]

\* the ways one place of the catalogue can be in the world: absent, or at one distance
PlacedOptions(p) == {{}} \cup { {Placed(p, d)} : d \in PlaceDistances(p.id) }

\* every world: each place of the catalogue absent, or present at one distance
Worlds ==
    { a \cup b \cup c :
        a \in PlacedOptions(poiPark), b \in PlacedOptions(poiBbq), c \in PlacedOptions(poiCafe) }

RECURSIVE SortByDistance(_)
SortByDistance(S) ==
    IF S = {} THEN <<>>
    ELSE LET a == CHOOSE a \in S : \A b \in S : a.distance <= b.distance
         IN <<a>> \o SortByDistance(S \ {a})

PageSize == 15

\* amapPlaceAround: places within the radius that the keyword finds, nearest
\* first (sortrule=distance), one page of page_size results
amapPlaceAround(W, keywords, radius, page) ==
    LET found == { a \in W : /\ a.distance <= radius
                              /\ Includes(a.name \o <<"sp">> \o a.address \o <<"sp">> \o a.type,
                                          keywords) }
        all == SortByDistance(found)
        from == (page - 1) * PageSize + 1
        to == Min2(Len(all), page * PageSize)
    IN IF from > to THEN <<>> ELSE SubSeq(all, from, to)

\* ------------------------------------------------------------------------
\* Candidate gatherer
\* ------------------------------------------------------------------------
RawCap == 45
UniqueCap == 18
SearchKeywordCap == 8

\* the body of the "for (const p of pois)" loop
PushPois(acc, pois, keyword) ==
    acc \o [ i \in 1..Len(pois) |->
               [ id |-> pois[i].id,
                 name |-> pois[i].name,
                 category |-> IF pois[i].type = <<>> THEN keyword ELSE pois[i].type,
                 address |-> pois[i].address,
                 location |-> pois[i].location,
                 \* Number(p.distance || 0) || undefined; 0 stands for undefined
                 distanceMeter |-> IF pois[i].reportsDistance THEN pois[i].distance ELSE 0,
                 \* what haversineMeters(originPt, location) evaluates to
                 geoMeters |-> pois[i].distance ] ]

\* fetchPoisByKeywords: two pages per keyword, stop once RawCap raw candidates
\* are accumulated; st = [pois, calls]
RECURSIVE fetchPoisByKeywords(_, _, _, _, _, _)
fetchPoisByKeywords(st, W, kws, k, page, radius) ==
    IF k > Len(kws) THEN st
    ELSE LET got == PushPois(st.pois, amapPlaceAround(W, kws[k], radius, page), kws[k])
             st2 == [pois |-> got, calls |-> st.calls + 1]
         IN IF Len(got) >= RawCap THEN st2
            ELSE IF page = 1 THEN fetchPoisByKeywords(st2, W, kws, k, 2, radius)
            ELSE fetchPoisByKeywords(st2, W, kws, k + 1, 1, radius)

\* de-duplication by `${location}::${name}`, first occurrence kept
RECURSIVE UniquePois(_)
UniquePois(xs) ==
    IF xs = <<>> THEN <<>>
    ELSE LET r == UniquePois(SubSeq(xs, 1, Len(xs) - 1))
             x == xs[Len(xs)]
         IN IF \E i \in 1..Len(r) : r[i].location = x.location /\ r[i].name = x.name
            THEN r ELSE Append(r, x)

\* ------------------------------------------------------------------------
\* Candidate scorer
\* ------------------------------------------------------------------------
\* haversineMeters(originPt, {lng, lat}) of a gathered place
haversineMeters(poi) == poi.geoMeters

\* intentMatchScore: hits and the number of (trimmed, non-empty) keywords
intentMatchScore(keywords, name, address, category) ==
    LET trimmed == [i \in 1..Len(keywords) |-> Trim(keywords[i])]
        kws == SelectSeq(trimmed, LAMBDA k : k # <<>>)
        text == normalizeText(name \o <<"sp">> \o address \o <<"sp">> \o category)
        hit == { i \in 1..Len(kws) : Includes(text, normalizeText(kws[i])) }
    IN [hits |-> Cardinality(hit), of |-> Len(kws)]

\* wCloseness, wNovelty, wMatch in hundredths
ScoreWeights(strong) ==
    [ wCloseness |-> IF strong THEN 40 ELSE 55,
      wNovelty |-> IF strong THEN 20 ELSE 25,
      wMatch |-> 20 ]

\* intent.strong ? clamp(1 + affinity * 1.2, 0.05, 2.6) : clamp(1 + affinity * 0.6, 0.2, 1.8)
affinityFactor(strong, affinity) ==
    IF strong THEN clamp(100 + (affinity * 12) \div 10, 5, 260)
    ELSE clamp(100 + (affinity * 6) \div 10, 20, 180)

\* base * affinityFactor, scaled by the per-request constant
\* idealOneWay * max(1, #keywords) * 100 * 100 so that it stays an integer:
\*   base   = (wC*closeness + wN*novelty + wM*score) * 100
\*   factor = strong ? clamp(1 + affinity*1.2, 0.05, 2.6) : clamp(1 + affinity*0.6, 0.2, 1.8)
WeightOf(oneWayMin, idealOneWay, novelty, match, affinity, strong) ==
    LET cn == idealOneWay - Min2(idealOneWay, Abs(oneWayMin - idealOneWay))
        nk == Max2(1, match.of)
        w == ScoreWeights(strong)
        base == w.wCloseness * cn * nk * 100 + w.wNovelty * novelty * idealOneWay * nk
                + w.wMatch * match.hits * idealOneWay * 100
    IN base * affinityFactor(strong, affinity)

\* one element of `mapped` before the two filters; dropped = the callback's "return null";
\* poi is kept by its id
ScoreOne(poi, mode, safeAvailableMin, intentKeywords, intent, novelty) ==
    LET dist == IF poi.distanceMeter > 0 THEN poi.distanceMeter ELSE haversineMeters(poi)
        oneWayMin == Max2(1, RoundDiv(dist, metersPerMin(mode)))
        playMinEst == safeAvailableMin - oneWayMin * 2
        match == intentMatchScore(intentKeywords, poi.name, poi.address, poi.category)
        affinity == poiAffinity(intent.primary, poi)
        requiresMatch == Len(intentKeywords) > 0
    IN [ poi |-> poi.id, oneWayMin |-> oneWayMin, playMinEst |-> playMinEst,
         weight |-> WeightOf(oneWayMin, idealOneWayOf(safeAvailableMin), novelty,
                             match, affinity, intent.strong),
         matchHits |-> match.hits, affinity |-> affinity,
         \* the weights and the factor the weight was computed with
         weights |-> ScoreWeights(intent.strong),
         factor |-> affinityFactor(intent.strong, affinity),
         dropped |-> requiresMatch /\ match.hits = 0 ]

\* limit.map(...).filter(Boolean).filter(x => x.playMinEst >= 0)
Mapped(limit, mode, safeAvailableMin, intentKeywords, intent, nov) ==
    LET all == [ i \in 1..Len(limit) |->
                   ScoreOne(limit[i], mode, safeAvailableMin, intentKeywords, intent, nov[i]) ]
    IN SelectSeq(all, LAMBDA c : ~c.dropped /\ c.playMinEst >= 0)

\* a sort that puts the lightest first (variant for sensitivity)
RECURSIVE SortLightestFirst(_)
SortLightestFirst(xs) ==
    IF xs = <<>> THEN <<>>
    ELSE LET r == SortLightestFirst(SubSeq(xs, 1, Len(xs) - 1))
             c == xs[Len(xs)]
             n == Cardinality({ i \in 1..Len(r) : r[i].weight <= c.weight })
         IN SubSeq(r, 1, n) \o <<c>> \o SubSeq(r, n + 1, Len(r))

\* Array.prototype.sort((a, b) => b.weight - a.weight): stable, heaviest first
RECURSIVE SortByWeight(_)
SortByWeight(xs) ==
    IF xs = <<>> THEN <<>>
    ELSE LET r == SortByWeight(SubSeq(xs, 1, Len(xs) - 1))
             c == xs[Len(xs)]
             \* c goes after every element that is at least as heavy
             n == Cardinality({ i \in 1..Len(r) : r[i].weight >= c.weight })
         IN SubSeq(r, 1, n) \o <<c>> \o SubSeq(r, n + 1, Len(r))

HighAffinity == 70
LowAffinity == -20

\* the secondary intent-purity pass
IntentFiltered(mapped, intent) ==
    IF intent.strong /\ \E i \in 1..Len(mapped) : mapped[i].affinity >= HighAffinity
    THEN SelectSeq(mapped, LAMBDA c : c.affinity >= LowAffinity)
    ELSE mapped

RelaxedStayMin == 20
RoughCap == 10

\* a chain whose step 2 does not lower the minimum stay (variant for sensitivity)
RelaxedMinStayNone(minStayMin) == minStayMin

\* const relaxed = Math.min(minStayMin, 20)
RelaxedMinStay(minStayMin) == Min2(minStayMin, RelaxedStayMin)

\* notes recorded newest first (variant for sensitivity)
UnshiftNote(notes, note) == <<note>> \o notes

\* relaxNotes.push(note)
PushNote(notes, note) == Append(notes, note)

\* The constraint chain of the handler, from `let rough = ...` to the sort.
\* impl = "api" is api/recommend.ts, impl = "server" is the Express server.
\* notes are tags: "dwell" (minimum stay lowered), "closer" (closer places
\* allowed), "shortfall" (added after routing).
ConstraintChain(impl, mapped, intent, intentKeywords, minStay0, allowRelax) ==
    LET filtered == IntentFiltered(mapped, intent)
        rough1 == SelectSeq(filtered, LAMBDA c : c.playMinEst >= minStay0)
        relaxing == rough1 = <<>> /\ allowRelax
        relaxed == RelaxedMinStay(minStay0)
        notes1 == IF relaxing /\ relaxed < minStay0 THEN PushNote(<<>>, "dwell") ELSE <<>>
        minStay1 == IF relaxing /\ relaxed < minStay0 THEN relaxed ELSE minStay0
        pool == IF impl = "api" THEN mapped ELSE filtered
        rough2 == IF relaxing THEN SelectSeq(pool, LAMBDA c : c.playMinEst >= minStay1)
                  ELSE rough1
        minOneWay == IF Len(intentKeywords) > 0 THEN 1 ELSE 6
        rough3 == SelectSeq(rough2, LAMBDA c : c.oneWayMin >= minOneWay)
        notes2 == IF rough3 = <<>> THEN PushNote(notes1, "closer") ELSE notes1
        rough4 == IF rough3 = <<>>
                  THEN SelectSeq(mapped, LAMBDA c : c.playMinEst >= minStay1)
                  ELSE rough3
    IN [ rough |-> Slice0(SortByWeight(rough4), RoughCap),
         \* rough as it is before the sort
         survivors |-> rough4,
         \* rough as it is when the one-way floor is applied
         dwellPassed |-> rough2,
         \* the scored candidates the chain started from
         mapped |-> mapped,
         minStayMin |-> minStay1,
         relaxNotes |-> notes2 ]

\* ------------------------------------------------------------------------
\* Enrichment adapter: one attempt of glmReportAndGuide's run loop
\* ------------------------------------------------------------------------
GLM_MAX_RETRY == 2
GuideCacheTtlMs == 600000
FallbackGuideLen == 4

\* what one call of the narrative provider can come back with
GlmReply(status, parses, hasReport, guideLen) ==
    [status |-> status, parses |-> parses, hasReport |-> hasReport, guideLen |-> guideLen]

GlmReplies ==
    { GlmReply(200, TRUE, TRUE, 3), GlmReply(200, TRUE, TRUE, 6),    \* valid payloads
      GlmReply(200, TRUE, TRUE, 2), GlmReply(200, TRUE, TRUE, 7),    \* guide too short / long
      GlmReply(200, TRUE, FALSE, 4),                                 \* no reportMarkdown
      GlmReply(200, FALSE, FALSE, 0),                                \* not JSON
      GlmReply(429, FALSE, FALSE, 0),                                \* rate limited
      GlmReply(500, FALSE, FALSE, 0),                                \* other HTTP error
      GlmReply(0, FALSE, FALSE, 0) }                                 \* timeout, no response

\* a schema that also lets a two-entry guide through (variant for sensitivity)
GlmOneCallSchemaLoose(payload) ==
    payload.hasReport /\ payload.guideLen >= 2 /\ payload.guideLen <= 6

\* GlmOneCallSchema.safeParse(...).success
GlmOneCallSchema(payload) ==
    payload.hasReport /\ payload.guideLen >= 3 /\ payload.guideLen <= 6

\* a retry test that takes every failed reply for a rate limit (variant for sensitivity)
isAnyFailure(reply) == reply.status # 200

\* is429(e) for the error a reply makes the try block throw
is429(reply) == reply.status = 429

fallbackResult == [source |-> "rule", guideLen |-> FallbackGuideLen]

\* the body of the for loop for one reply: return a value, or sleep and retry
AttemptOutcome(reply, attempt) ==
    IF reply.status = 200 /\ reply.parses /\ GlmOneCallSchema(reply)
    THEN [ act |-> "return", cache |-> TRUE, sleepMs |-> 0,
           value |-> [source |-> "glm", guideLen |-> reply.guideLen] ]
    ELSE IF is429(reply) /\ attempt < GLM_MAX_RETRY
    THEN [ act |-> "retry", cache |-> FALSE, sleepMs |-> 1200 * (attempt + 1),
           value |-> fallbackResult ]
    ELSE [ act |-> "return", cache |-> FALSE, sleepMs |-> 0, value |-> fallbackResult ]

\* every value the run loop can return: for (attempt = 0; attempt <= GLM_MAX_RETRY; ...)
RECURSIVE RunValuesFrom(_)
RunValuesFrom(n) ==
    IF n > GLM_MAX_RETRY THEN {fallbackResult}
    ELSE UNION { LET o == AttemptOutcome(reply, n)
                 IN IF o.act = "retry" THEN RunValuesFrom(n + 1) ELSE {o.value}
                 : reply \in GlmReplies }

RunValues == RunValuesFrom(0)

\* ------------------------------------------------------------------------
\* The recommend handler (one request)
\* ------------------------------------------------------------------------
VARIABLES
    impl,           \* "api": api/recommend.ts, "server": the Express server
    req,            \* the parsed request body
    world,          \* the places the geospatial provider knows around the origin
    pc,             \* where the handler is
    limit,          \* unique.slice(0, 18)
    searchCalls,    \* nearby-search calls issued
    fallbackRuns,   \* times the default keyword list was searched after an empty intent search
    chain,          \* what the constraint chain computed (rough, minStayMin, relaxNotes, ...)
    relaxNotes,     \* the handler's relaxNotes array
    routeCalls,     \* routing calls issued
    route,          \* goMin, backMin, playMin
    resp,           \* the HTTP response
    provErr         \* history: a nearby-search or routing call of this request failed

pvars == << impl, req, world, pc, limit, searchCalls, fallbackRuns, chain, relaxNotes,
            routeCalls, route, resp, provErr >>

\* the enrichment adapter under concurrent calls
VARIABLES
    hasKey,       \* ZHIPU_API_KEY is configured
    now,          \* Date.now(), milliseconds
    ticks,        \* clock advances so far
    guideCache,   \* guideCache: key -> entry
    glmTail,      \* the call whose run glmQueue settles after; 0 = Promise.resolve()
    glm,          \* per call of glmReportAndGuide: its position and locals
    lastReply     \* the latest provider reply and the call it went to

gvars == << hasKey, now, ticks, guideCache, glmTail, glm, lastReply >>

\* the side-quest handler
VARIABLES
    ereq,       \* the parsed /api/egg request body
    epc,        \* "idle" -> "story" -> "done"
    eggCalls,   \* narrative-provider calls made for this request
    eresp       \* the JSON response

evars == << ereq, epc, eggCalls, eresp >>

\* the arrival verifier
VARIABLES
    vreq,       \* the parsed /api/egg-verify request body
    vpc,        \* "idle" -> "done"
    vresp       \* the JSON response

vvars == << vreq, vpc, vresp >>

\* intent resolution of several requests of one process
VARIABLES
    intents     \* per request: its mood text, and the intent profile once resolved

ivars == << intents >>

\* the search radius over the whole range of windows
VARIABLES
    minutes,      \* availableMinutes
    radii,        \* per mode: suggestedRadiusMeters(mode, minutes)
    prevRadii     \* per mode: suggestedRadiusMeters(mode, minutes - 1)

rvars == << minutes, radii, prevRadii >>

\* the model-backed intent resolver
VARIABLES
    kmood,             \* the mood text glmIntentProfile is called with
    kpc,               \* "idle" -> "calling" -> "done"
    kcalls,            \* calls of glmIntentProfile so far
    kreply,            \* the provider reply of the latest call
    kout,              \* the profile the latest call returned
    glmCooldownUntil   \* glmCooldownUntil, milliseconds

kvars == << kmood, kpc, kcalls, kreply, kout, glmCooldownUntil >>

\* category affinity of one place
VARIABLES
    aprimary,   \* the primary intent
    apoi,       \* the place: name and category
    apc,        \* "idle" -> "done"
    aout        \* what poiAffinity returned, x100

avars == << aprimary, apoi, apc, aout >>

\* the web UI (App component): React state and the requests in flight
VARIABLES
    data,            \* data: the recommendation shown
    loading,         \* loading
    recommendCall,   \* onRecommend's position: "none", "sent", "drawing"
    eggData,         \* eggData: the side quest shown
    eggLoading,      \* eggLoading
    eggCall,         \* poi.location of the getEgg request in flight, "" when none
    verifyLoading,   \* verifyLoading
    verifyCall,      \* the verifyEgg request in flight, with the destination shown when it was sent
    verifyResult     \* verifyResult

uvars == << data, loading, recommendCall, eggData, eggLoading, eggCall, verifyLoading,
            verifyCall, verifyResult >>

\* the functions and components checked on their own
xvars == << kvars, avars, uvars >>

\* the handlers and functions outside the recommend / enrichment / side-quest machines
ovars == << vvars, ivars, rvars, xvars >>

vars == << pvars, gvars, evars, ovars >>

HHmm(h, m) == <<h, m>>

Windows ==
    { <<HHmm(9, 0), HHmm(9, 20)>>,     \* 20 minutes, below the planning minimum
      <<HHmm(9, 0), HHmm(9, 35)>>,     \* 35 minutes
      <<HHmm(9, 0), HHmm(10, 20)>>,    \* 80 minutes
      <<HHmm(9, 0), HHmm(12, 0)>>,     \* 180 minutes
      <<HHmm(20, 0), HHmm(8, 0)>> }    \* 720 minutes across midnight, above the planning maximum

moodPark == <<"xiang3", "qu", "gong", "yuan", "san", "bu">>    \* 想去公园散步
moodCoffee == <<"xiang3", "he", "ka", "fei">>                  \* 想喝咖啡
moodSpa == <<"pao", "wen", "quan">>                            \* 泡温泉
moodFeast == <<"ka", "fei", "shao", "kao", "huo", "guo">>      \* 咖啡烧烤火锅

\* (mood, categories) pairs
Preferences ==
    { <<<<>>, <<>>>>, <<moodPark, <<>>>>, <<moodCoffee, <<>>>>, <<moodSpa, <<>>>>,
      <<<<>>, <<kw.GongYuan>>>> }

Modes == {"walk", "bike", "drive"}

\* minStayMin as sent: -1 stands for "not sent"
MinStayInputs == {-1, 120}

\* the origin of every request: a point in Yichang (the world is laid out around it)
Origin == [lng |-> 111, lat |-> 30]

\* bodies that RecommendSchema accepts
GoodRequests ==
    { [ origin |-> Origin, mode |-> md, startTime |-> w[1], endTime |-> w[2],
        mood |-> pr[1], categories |-> pr[2], minStayMin |-> ms, allowRelax |-> ar ] :
        md \in Modes, w \in Windows, pr \in Preferences, ms \in MinStayInputs,
        ar \in BOOLEAN }

\* a plain request, and the ways a body can depart from it.  A time text is given as
\* the numbers its ':'-separated fields convert to: "25:99" is <<25, 99>>, "9" is <<9>>.
PlainRequest ==
    [ origin |-> Origin, mode |-> "walk", startTime |-> HHmm(9, 0), endTime |-> HHmm(12, 0),
      mood |-> <<>>, categories |-> <<>>, minStayMin |-> -1, allowRelax |-> TRUE ]

OddRequests ==
    { [PlainRequest EXCEPT !.origin = [lng |-> 111, lat |-> 91]],
      [PlainRequest EXCEPT !.origin = [lng |-> 181, lat |-> 30]],
      [PlainRequest EXCEPT !.mode = "fly"],
      [PlainRequest EXCEPT !.minStayMin = 1441],
      [PlainRequest EXCEPT !.startTime = <<9>>],
      [PlainRequest EXCEPT !.endTime = <<9>>],
      [PlainRequest EXCEPT !.startTime = <<25, 99>>, !.endTime = <<27, 0>>],
      [PlainRequest EXCEPT !.endTime = <<11, 75>>],
      [PlainRequest EXCEPT !.categories = <<kw.GongYuan, kw.GongYuan>>],
      [PlainRequest EXCEPT !.categories = <<kw.KaFei, kw.TianPin, kw.XiaoChi, kw.YeShi,
                                             kw.GongYuan, kw.JiangBian, kw.ShangChang>>],
      [PlainRequest EXCEPT !.mood = moodFeast] }

Requests == GoodRequests \cup OddRequests

\* the characters of a time text: "HH:mm" has five, a single field of one digit has one
TimeTextLen(t) == IF Len(t) = 2 THEN 5 ELSE 1

\* RecommendSchema.safeParse(req.body).success
RecommendSchema(r) ==
    /\ r.origin.lng >= -180 /\ r.origin.lng <= 180
    /\ r.origin.lat >= -90 /\ r.origin.lat <= 90
    /\ r.mode \in {"walk", "bike", "drive"}
    /\ TimeTextLen(r.startTime) >= 4
    /\ TimeTextLen(r.endTime) >= 4
    /\ r.minStayMin = -1 \/ (r.minStayMin >= 0 /\ r.minStayMin <= 24 * 60)

availableMinOf(r) == minutesBetween(r.startTime, r.endTime)
safeAvailableMinOf(r) == clamp(availableMinOf(r), 30, 10 * 60)

\* intentProfile: categories win (source manual), else the rule pass; confidence x100
manualProfile(keywords, inferred) ==
    [ keywords |-> keywords, primaryIntent |-> inferred.primary,
      confidence |-> IF inferred.strong THEN 90 ELSE 70, source |-> "manual" ]
ruleProfile(keywords, inferred) ==
    [ keywords |-> keywords, primaryIntent |-> inferred.primary,
      confidence |-> IF inferred.strong THEN 75 ELSE 55, source |-> "rule" ]
ruleProfileOf(mood, keywords) == ruleProfile(keywords, inferIntentPrimary(mood, keywords))
\* a resolver that answers from the enrichment cache's state (variant for sensitivity)
intentProfileSticky(r) ==
    IF \E key \in DOMAIN guideCache : guideCache[key].present
    THEN ruleProfileOf(<<>>, <<>>)
    ELSE ruleProfileOf(r.mood, heuristicKeywords(r.mood))

intentProfileOf(r) ==
    IF Len(r.categories) > 0
    THEN manualProfile(r.categories, inferIntentPrimary(r.mood, r.categories))
    ELSE ruleProfileOf(r.mood, heuristicKeywords(r.mood))

\* const intent = { primary, strong: intentProfile.confidence >= 0.55 }
intentOf(ip) == [primary |-> ip.primaryIntent, strong |-> ip.confidence >= 55]

\* (intentKeywords.length ? intentKeywords : defaultCategoryKeywords()).slice(0, 8)
searchKeywordsOf(ip) ==
    Slice0(IF Len(ip.keywords) > 0 THEN ip.keywords ELSE defaultCategoryKeywords,
           SearchKeywordCap)

\* let minStayMin = parsed.data.minStayMin ?? inferMinStayMin(...); then the clamp
initialMinStayOf(r, ip) ==
    clamp(IF r.minStayMin >= 0 THEN r.minStayMin
          ELSE inferMinStayMin(r.mood, ip.keywords, safeAvailableMinOf(r)),
          0, Max2(0, safeAvailableMinOf(r) - 10))

NoChain ==
    [ rough |-> <<>>, survivors |-> <<>>, dwellPassed |-> <<>>, mapped |-> <<>>,
      minStayMin |-> 0, relaxNotes |-> <<>> ]
\* dest: the place the two routing calls were made for
NoRoute == [dest |-> "", goMin |-> 0, backMin |-> 0, playMin |-> 0]

\* responses: status, and for status 200 either empty=true with a message or a plan
NoResp == [ status |-> 0, empty |-> FALSE, message |-> "", availableMin |-> 0,
            keywords |-> <<>>, relaxNotes |-> <<>>, candidates |-> <<>>, result |-> "",
            goMin |-> 0, backMin |-> 0, playMin |-> 0, guideLen |-> 0, source |-> "" ]
EmptyResp(msg) == [NoResp EXCEPT !.status = 200, !.empty = TRUE, !.message = msg]
ErrorResp == [NoResp EXCEPT !.status = 500, !.message = "server_error"]
BadRequestResp == [NoResp EXCEPT !.status = 400, !.message = "bad_request"]

PInit ==
    /\ impl \in {"api", "server"}
    /\ req \in Requests
    /\ world \in Worlds
    /\ pc = "start"
    /\ limit = <<>>
    /\ searchCalls = 0
    /\ fallbackRuns = 0
    /\ chain = NoChain
    /\ relaxNotes = <<>>
    /\ routeCalls = 0
    /\ route = NoRoute
    /\ resp = NoResp
    /\ provErr = FALSE

\* if (!parsed.success) return res.status(400).json({ error: 'bad_request', ... })
Reject ==
    /\ pc = "start"
    /\ ~RecommendSchema(req)
    /\ pc' = "done"
    /\ resp' = BadRequestResp
    /\ UNCHANGED << impl, req, world, limit, searchCalls, fallbackRuns, chain, relaxNotes,
                    routeCalls, route >>
    /\ UNCHANGED << provErr, gvars, evars, ovars >>

\* both searches of the handler: the intent (or default) keywords, then the
\* generic default list when nothing at all was found for intent keywords
fallbackSearch(first, W, intentKeywords, radius) ==
    IF Len(first.pois) = 0 /\ Len(intentKeywords) > 0
    THEN [ st |-> fetchPoisByKeywords(first, W, defaultCategoryKeywords, 1, 1, radius),
           fallbackRuns |-> 1 ]
    ELSE [ st |-> first, fallbackRuns |-> 0 ]
uniqueLimit(g) ==
    [ limit |-> Slice0(UniquePois(g.st.pois), UniqueCap), calls |-> g.st.calls,
      fallbackRuns |-> g.fallbackRuns ]
Gathered(r, W, ip) ==
    uniqueLimit(
        fallbackSearch(
            fetchPoisByKeywords([pois |-> <<>>, calls |-> 0], W, searchKeywordsOf(ip), 1, 1,
                                suggestedRadiusMeters(r.mode, safeAvailableMinOf(r))),
            W, ip.keywords, suggestedRadiusMeters(r.mode, safeAvailableMinOf(r))))

\* await fetchPoisByKeywords(...) twice, de-duplication, the cap, the first empty outcome
Gather ==
    /\ pc = "start"
    /\ RecommendSchema(req)
    /\ \E ip \in {intentProfileOf(req)} :
       \E g \in {Gathered(req, world, ip)} :
          /\ limit' = g.limit
          /\ searchCalls' = g.calls
          /\ fallbackRuns' = g.fallbackRuns
          /\ IF g.limit = <<>>
             THEN pc' = "done" /\ resp' = EmptyResp("no_places")
             ELSE pc' = "gathered" /\ resp' = resp
    /\ UNCHANGED << impl, req, world, chain, relaxNotes, routeCalls, route >>
    /\ UNCHANGED << provErr, gvars, evars, ovars >>

\* a nearby-search call throws (error or timeout): the catch block answers 500
GatherFail ==
    /\ pc = "start"
    /\ RecommendSchema(req)
    /\ searchCalls' = 1
    /\ pc' = "done"
    /\ resp' = ErrorResp
    /\ provErr' = TRUE
    /\ UNCHANGED << impl, req, world, limit, fallbackRuns, chain, relaxNotes, routeCalls,
                    route >>
    /\ UNCHANGED << gvars, evars, ovars >>

\* the provider answers every nearby search with an error in the body (HTTP 200, no
\* "pois" array: invalid key, quota): data?.pois is not an array, so pois = [] each time
GatherErrorBody ==
    /\ pc = "start"
    /\ RecommendSchema(req)
    /\ \E ip \in {intentProfileOf(req)} :
       \E g \in {Gathered(req, {}, ip)} :
          /\ limit' = g.limit
          /\ searchCalls' = g.calls
          /\ fallbackRuns' = g.fallbackRuns
    /\ pc' = "done"
    /\ resp' = EmptyResp("no_places")
    /\ provErr' = TRUE
    /\ UNCHANGED << impl, req, world, chain, relaxNotes, routeCalls, route >>
    /\ UNCHANGED << gvars, evars, ovars >>

\* Math.random() draws, as 0.7 + Math.random() * 0.6 in hundredths
Novelties == {70, 129}

\* scoring, the intent-purity pass, the constraint chain, the sort, the second empty outcome
Select ==
    /\ pc = "gathered"
    /\ \E nov \in [1..Len(limit) -> Novelties], ip \in {intentProfileOf(req)} :
       \E mapped \in {Mapped(limit, req.mode, safeAvailableMinOf(req), ip.keywords,
                             intentOf(ip), nov)} :
       \E c \in {ConstraintChain(impl, mapped, intentOf(ip), ip.keywords,
                                 initialMinStayOf(req, ip), req.allowRelax)} :
            /\ chain' = c
            /\ relaxNotes' = c.relaxNotes
            /\ IF c.rough = <<>>
               THEN pc' = "done" /\ resp' = EmptyResp("too_tight")
               ELSE pc' = "routing" /\ resp' = resp
    /\ UNCHANGED << impl, req, world, limit, searchCalls, fallbackRuns, routeCalls, route >>
    /\ UNCHANGED << provErr, gvars, evars, ovars >>

\* durations (seconds) the routing provider may report for a leg
DurationSecs == {30, 2000, 19000}

\* Math.max(1, Math.round(durationSec / 60))
DurationMin(durationSec) == Max2(1, RoundDiv(durationSec, 60))

\* a budget that forgets the return leg (variant for sensitivity)
PlayMinOneLeg(safeAvailableMin, goMin, backMin) == safeAvailableMin - goMin

\* const playMin = safeAvailableMin - (goMin + backMin)
PlayMinOf(safeAvailableMin, goMin, backMin) == safeAvailableMin - (goMin + backMin)

\* if (playMin < minStayMin && parsed.data.allowRelax) relaxNotes.push(...)
ShortfallNoted(playMin, minStayMin, allowRelax) == playMin < minStayMin /\ allowRelax

\* the handler from the two routing replies (durationSec of each leg) to the shortfall note
Routed(goSec, backSec) ==
    LET goMin == DurationMin(goSec)
        backMin == DurationMin(backSec)
        playMin == PlayMinOf(safeAvailableMinOf(req), goMin, backMin)
    IN /\ route' = [ dest |-> chain.rough[1].poi, goMin |-> goMin, backMin |-> backMin,
                     playMin |-> playMin ]
       /\ IF playMin < 0
          THEN /\ pc' = "done"
               /\ resp' = EmptyResp("retry")
               /\ relaxNotes' = relaxNotes
          ELSE /\ pc' = "enrich"
               /\ resp' = resp
               /\ relaxNotes' =
                    IF ShortfallNoted(playMin, chain.minStayMin, req.allowRelax)
                    THEN PushNote(relaxNotes, "shortfall") ELSE relaxNotes
       /\ routeCalls' = 2

\* Promise.all of the two amapDirection calls for rough[0], then the time budget
Route ==
    /\ pc = "routing"
    /\ \E goSec \in DurationSecs, backSec \in DurationSecs : Routed(goSec, backSec)
    /\ UNCHANGED << impl, req, world, limit, searchCalls, fallbackRuns, chain >>
    /\ UNCHANGED << provErr, gvars, evars, ovars >>

\* (go, back) durations when the provider answers a routing call with an error in the
\* body (HTTP 200, no paths): Number(path?.duration || 0) is 0 for that leg
ErrorBodyLegs == { <<0, 0>>, <<0, 2000>> }

RouteErrorBody ==
    /\ pc = "routing"
    /\ \E legs \in ErrorBodyLegs : Routed(legs[1], legs[2])
    /\ provErr' = TRUE
    /\ UNCHANGED << impl, req, world, limit, searchCalls, fallbackRuns, chain >>
    /\ UNCHANGED << gvars, evars, ovars >>

\* a routing call throws: the catch block answers 500
RouteFail ==
    /\ pc = "routing"
    /\ routeCalls' = 2
    /\ pc' = "done"
    /\ resp' = ErrorResp
    /\ provErr' = TRUE
    /\ route' = [NoRoute EXCEPT !.dest = chain.rough[1].poi]
    /\ UNCHANGED << impl, req, world, limit, searchCalls, fallbackRuns, chain, relaxNotes >>
    /\ UNCHANGED << gvars, evars, ovars >>

\* input.availableMin of the response
ReportedAvailableMin(r) == safeAvailableMinOf(r)

\* res.json({ ok: true, ..., result: {...} }) with the enrichment value ai
PlanResp(ai) ==
    [ status |-> 200, empty |-> FALSE, message |-> "",
      availableMin |-> ReportedAvailableMin(req),
      \* intent.keywords: intentProfile.keywords
      keywords |-> intentProfileOf(req).keywords,
      relaxNotes |-> relaxNotes,
      candidates |-> [ i \in 1..Len(Slice0(chain.rough, 3)) |-> chain.rough[i].poi ],
      result |-> chain.rough[1].poi,
      goMin |-> route.goMin, backMin |-> route.backMin, playMin |-> route.playMin,
      guideLen |-> ai.guideLen, source |-> ai.source ]

\* glmReportAndGuide up to the run loop: no credential -> fallback; a live cache
\* entry (always a validated provider result) -> that entry
EnrichNoKey ==
    /\ pc = "enrich"
    /\ pc' = "done"
    /\ resp' = PlanResp(fallbackResult)
    /\ UNCHANGED << impl, req, world, limit, searchCalls, fallbackRuns, chain, relaxNotes,
                    routeCalls, route >>
    /\ UNCHANGED << provErr, gvars, evars, ovars >>

EnrichCached ==
    /\ pc = "enrich"
    /\ \E g \in {3, 6} :
         resp' = PlanResp([source |-> "glm", guideLen |-> g])
    /\ pc' = "done"
    /\ UNCHANGED << impl, req, world, limit, searchCalls, fallbackRuns, chain, relaxNotes,
                    routeCalls, route >>
    /\ UNCHANGED << provErr, gvars, evars, ovars >>

\* withGlmLock(run): the run loop ends with one of RunValues
EnrichRun ==
    /\ pc = "enrich"
    /\ \E v \in RunValues : resp' = PlanResp(v)
    /\ pc' = "done"
    /\ UNCHANGED << impl, req, world, limit, searchCalls, fallbackRuns, chain, relaxNotes,
                    routeCalls, route >>
    /\ UNCHANGED << provErr, gvars, evars, ovars >>

PNext ==
    \/ Reject
    \/ Gather
    \/ GatherFail
    \/ GatherErrorBody
    \/ Select
    \/ Route
    \/ RouteFail
    \/ RouteErrorBody
    \/ EnrichNoKey
    \/ EnrichCached
    \/ EnrichRun

\* the handler is not running (the other specifications leave it here)
PIdle ==
    /\ impl = "api"
    /\ req = PlainRequest
    /\ world = {}
    /\ pc = "idle"
    /\ limit = <<>>
    /\ searchCalls = 0
    /\ fallbackRuns = 0
    /\ chain = NoChain
    /\ relaxNotes = <<>>
    /\ routeCalls = 0
    /\ route = NoRoute
    /\ resp = NoResp
    /\ provErr = FALSE

\* ------------------------------------------------------------------------
\* glmReportAndGuide under concurrent requests: cache, withGlmLock, retries
\* ------------------------------------------------------------------------

NumCalls == 2
MaxTicks == 2
Calls == 1..NumCalls
CacheKeys == {"k1", "k2"}
TickSteps == {1200, 600000}

NoReply == GlmReply(-1, FALSE, FALSE, 0)
NoResult == [source |-> "", guideLen |-> 0]
NoEntry == [present |-> FALSE, value |-> NoResult, expiresAt |-> 0]

IdleCall ==
    [ pc |-> "idle", key |-> "k1", pred |-> 0, seq |-> 0, attempt |-> 0, calls |-> 0,
      wakeAt |-> 0, result |-> NoResult ]

\* cacheGet: the entry's value unless absent or expired
cacheHit(m, key, t) == m[key].present /\ ~(t > m[key].expiresAt)
\* cacheGet's side effect: an expired entry is deleted
cacheAfterGet(m, key, t) ==
    IF m[key].present /\ t > m[key].expiresAt THEN [m EXCEPT ![key] = NoEntry] ELSE m
cacheSet(m, key, value, ttlMs, t) ==
    [m EXCEPT ![key] = [present |-> TRUE, value |-> value, expiresAt |-> t + ttlMs]]

\* a queue that lets every run start at once (variant for sensitivity)
CanStartAlways(c) == TRUE

\* glmQueue.then(fn, fn): fn is invoked once the promise glmQueue held when the call
\* was queued has settled; that promise is next.catch(() => {}) of the previous run,
\* which settles when that run's promise settles, fulfilled or rejected
CanStart(c) == IF glm[c].pred = 0 THEN TRUE ELSE glm[glm[c].pred].pc = "done"

Running(c) == glm[c].pc \in {"calling", "sleeping"}

GInit ==
    /\ hasKey \in BOOLEAN
    /\ now = 0
    /\ ticks = 0
    /\ guideCache = [k \in CacheKeys |-> NoEntry]
    /\ glmTail = 0
    /\ glm = [c \in Calls |-> IdleCall]
    /\ lastReply = [call |-> 0, reply |-> NoReply]

GIdle ==
    /\ hasKey = FALSE
    /\ now = 0
    /\ ticks = 0
    /\ guideCache = [k \in CacheKeys |-> NoEntry]
    /\ glmTail = 0
    /\ glm = [c \in Calls |-> IdleCall]
    /\ lastReply = [call |-> 0, reply |-> NoReply]

\* the synchronous part of glmReportAndGuide: fallback built, credential check,
\* cache lookup, withGlmLock(run)
GEnter(c) ==
    /\ glm[c].pc = "idle"
    /\ \E k \in CacheKeys :
         IF ~hasKey
         THEN /\ glm' = [glm EXCEPT ![c].pc = "done", ![c].key = k,
                                    ![c].result = fallbackResult]
              /\ UNCHANGED << guideCache, glmTail >>
         ELSE IF cacheHit(guideCache, k, now)
         THEN /\ glm' = [glm EXCEPT ![c].pc = "done", ![c].key = k,
                                    ![c].result = guideCache[k].value]
              /\ UNCHANGED << guideCache, glmTail >>
         ELSE /\ guideCache' = cacheAfterGet(guideCache, k, now)
              /\ glm' = [glm EXCEPT ![c].pc = "queued", ![c].key = k,
                                    ![c].pred = glmTail,
                                    ![c].seq = 1 + Cardinality({d \in Calls : glm[d].seq > 0})]
              /\ glmTail' = c
    /\ UNCHANGED << hasKey, now, ticks, lastReply >>
    /\ UNCHANGED << pvars, evars, ovars >>

\* run starts: attempt = 0 and the first await call()
GStart(c) ==
    /\ glm[c].pc = "queued"
    /\ CanStart(c)
    /\ glm' = [glm EXCEPT ![c].pc = "calling", ![c].attempt = 0, ![c].calls = 1]
    /\ UNCHANGED << hasKey, now, ticks, guideCache, glmTail, lastReply >>
    /\ UNCHANGED << pvars, evars, ovars >>

\* the provider call comes back: the rest of the loop body
GReply(c) ==
    /\ glm[c].pc = "calling"
    /\ \E reply \in GlmReplies :
       \E o \in {AttemptOutcome(reply, glm[c].attempt)} :
         /\ lastReply' = [call |-> c, reply |-> reply]
         /\ IF o.act = "retry"
            THEN /\ glm' = [glm EXCEPT ![c].pc = "sleeping",
                                       ![c].wakeAt = now + o.sleepMs]
                 /\ guideCache' = guideCache
            ELSE /\ glm' = [glm EXCEPT ![c].pc = "done", ![c].result = o.value]
                 /\ guideCache' = IF o.cache
                                  THEN cacheSet(guideCache, glm[c].key, o.value,
                                                GuideCacheTtlMs, now)
                                  ELSE guideCache
    /\ UNCHANGED << hasKey, now, ticks, glmTail >>
    /\ UNCHANGED << pvars, evars, ovars >>

\* the timer of sleep(1200 * (attempt + 1)) fires, no earlier than its time: continue
\* with the next attempt's call
GWake(c) ==
    /\ glm[c].pc = "sleeping"
    /\ now' = Max2(now, glm[c].wakeAt)
    /\ glm' = [glm EXCEPT ![c].pc = "calling", ![c].attempt = @ + 1, ![c].calls = @ + 1,
                           ![c].wakeAt = 0]
    /\ UNCHANGED << hasKey, ticks, guideCache, glmTail, lastReply >>
    /\ UNCHANGED << pvars, evars, ovars >>

\* the clock advances while no timer is due; only a cache entry can tell
Tick ==
    /\ ticks < MaxTicks
    /\ \E k \in CacheKeys : guideCache[k].present
    /\ \A c \in Calls : glm[c].pc # "sleeping"
    /\ \E d \in TickSteps : now' = now + d
    /\ ticks' = ticks + 1
    /\ UNCHANGED << hasKey, guideCache, glmTail, glm, lastReply >>
    /\ UNCHANGED << pvars, evars, ovars >>

GNext ==
    \/ \E c \in Calls : GEnter(c)
    \/ \E c \in Calls : GStart(c)
    \/ \E c \in Calls : GReply(c)
    \/ \E c \in Calls : GWake(c)
    \/ Tick

\* ------------------------------------------------------------------------
\* Side quest: POST /api/egg
\* ------------------------------------------------------------------------

DAY_START_MIN == 6 * 60
DAY_END_MIN == 20 * 60
VerifyRadiusMeter == 140

\* hhmmToMin on an "HH:mm" string, given as the pair its two fields convert to
hhmmToMin(hhmm) == hhmm[1] * 60 + hhmm[2]

\* a gate that looks at the start of the window only (variant for sensitivity)
isDaytimeWindowStartOnly(startTime, endTime) ==
    LET s == hhmmToMin(startTime)
        e == hhmmToMin(endTime)
    IN IF e < s THEN FALSE
       ELSE s >= DAY_START_MIN

isDaytimeWindow(startTime, endTime) ==
    LET s == hhmmToMin(startTime)
        e == hhmmToMin(endTime)
    IN IF e < s THEN FALSE
       ELSE s >= DAY_START_MIN /\ e <= DAY_END_MIN

reTask ==
    [ Park |-> { kw.GongYuan, <<"feng", "jing">>, kw.JingDian, <<"guang3", "chang">>, <<"jiang">>, <<"hu">>, <<"shi1", "di">>, <<"lv4", "di">> },
      Mall |-> { kw.ShangChang, <<"gou", "wu">>, <<"bu", "xing", "jie">>, <<"m", "a", "l", "l">> },
      Museum |-> { kw.BoWuGuan, kw.ZhanGuan, <<"mei", "shu", "guan">>, <<"tu", "shu1", "guan">> } ]

\* the three task templates per place class; walkSteps is 300 only for 0 < playMin < 20
safeTasksByCategory(poi, playMin) ==
    LET full == normalizeText(poi.name \o <<" ">> \o poi.category)
        walkSteps == IF playMin > 0 /\ playMin < 20 THEN 300 ELSE 600
    IN IF Test(reTask.Park, full)
       THEN << [task |-> "park_walk", steps |-> walkSteps],
               [task |-> "park_photo", steps |-> 0],
               [task |-> "park_breathe", steps |-> 0] >>
       ELSE IF Test(reTask.Museum, full)
       THEN << [task |-> "museum_read", steps |-> 0],
               [task |-> "museum_sit", steps |-> 0],
               [task |-> "museum_remember", steps |-> 0] >>
       ELSE IF Test(reTask.Mall, full)
       THEN << [task |-> "mall_stroll", steps |-> 0],
               [task |-> "mall_pause", steps |-> 0],
               [task |-> "mall_reward", steps |-> 0] >>
       ELSE << [task |-> "any_walk", steps |-> walkSteps],
               [task |-> "any_observe", steps |-> 0],
               [task |-> "any_name", steps |-> 0] >>

fallbackStory(tasks) == [source |-> "rule", tasks |-> tasks]

\* what the story call can come back with: tasks of the provider's own, or nothing usable
StoryReplies ==
    { [ok |-> TRUE, parses |-> TRUE, taskLen |-> 2], [ok |-> TRUE, parses |-> TRUE, taskLen |-> 5],
      [ok |-> TRUE, parses |-> TRUE, taskLen |-> 1], [ok |-> TRUE, parses |-> TRUE, taskLen |-> 6],
      [ok |-> TRUE, parses |-> FALSE, taskLen |-> 0], [ok |-> FALSE, parses |-> FALSE, taskLen |-> 0] }

StorySchema(reply) == reply.taskLen >= 2 /\ reply.taskLen <= 5

\* glmEggStory once its HTTP call has come back
glmEggStory(reply, tasks) ==
    IF reply.ok /\ reply.parses /\ StorySchema(reply)
    THEN [ source |-> "glm",
           tasks |-> [i \in 1..reply.taskLen |-> [task |-> "glm_task", steps |-> 0]] ]
    ELSE fallbackStory(tasks)

EggTimes ==
    { HHmm(0, 0), HHmm(1, 0), HHmm(5, 59), HHmm(6, 0), HHmm(9, 0), HHmm(11, 0),
      HHmm(19, 30), HHmm(20, 0), HHmm(20, 1), HHmm(21, 0), HHmm(23, 0) }

\* 宜昌博物馆 / 科教文化服务;博物馆
EggPois ==
    { [name |-> poiPark.name, category |-> poiPark.type, address |-> poiPark.address,
       location |-> "park"],
      [name |-> poiBbq.name, category |-> poiBbq.type, address |-> poiBbq.address,
       location |-> "bbq"],
      [name |-> <<"yi2", "chang1">> \o kw.BoWuGuan, category |-> topCulture \o sc \o kw.BoWuGuan,
       address |-> <<>>, location |-> "museum"] }

EggPlayMins == {-1, 10, 60}     \* -1: playMin not sent

EggRequests ==
    [ mode : {"walk", "drive"}, startTime : EggTimes, endTime : EggTimes,
      mood : {<<>>, moodPark}, city : {"yichang"}, poi : EggPois, playMin : EggPlayMins ]

NoEggResp ==
    [ status |-> 0, ok |-> FALSE, eligible |-> FALSE, hasEgg |-> FALSE, source |-> "",
      tasks |-> <<>>, radiusMeter |-> 0, destLocation |-> "", message |-> "" ]

EggResp(r, story) ==
    [ status |-> 200, ok |-> TRUE, eligible |-> TRUE, hasEgg |-> TRUE, source |-> story.source,
      tasks |-> story.tasks, radiusMeter |-> VerifyRadiusMeter,
      destLocation |-> r.poi.location, message |-> "" ]

EIdle ==
    /\ ereq = [ mode |-> "walk", startTime |-> HHmm(9, 0), endTime |-> HHmm(11, 0),
                mood |-> <<>>, city |-> "yichang",
                poi |-> [name |-> poiPark.name, category |-> poiPark.type,
                         address |-> poiPark.address, location |-> "park"],
                playMin |-> -1 ]
    /\ epc = "idle"
    /\ eggCalls = 0
    /\ eresp = NoEggResp

EInit ==
    /\ ereq \in EggRequests
    /\ epc = "idle"
    /\ eggCalls = 0
    /\ eresp = NoEggResp

\* the handler up to its first await: the gate, the tasks, and glmEggStory's credential check
EggGate ==
    /\ epc = "idle"
    /\ IF ~isDaytimeWindow(ereq.startTime, ereq.endTime)
       THEN /\ eresp' = [NoEggResp EXCEPT !.status = 200, !.ok = TRUE,
                                          !.message = "daytime_only"]
            /\ epc' = "done"
            /\ eggCalls' = eggCalls
       ELSE IF ~hasKey
       THEN /\ eresp' = EggResp(ereq, fallbackStory(
                           Slice0(safeTasksByCategory(ereq.poi, ereq.playMin), 3)))
            /\ epc' = "done"
            /\ eggCalls' = eggCalls
       ELSE /\ epc' = "story"
            /\ eggCalls' = eggCalls + 1
            /\ eresp' = eresp
    /\ UNCHANGED ereq
    /\ UNCHANGED << pvars, gvars, ovars >>

\* the story call comes back and the handler answers
EggStory ==
    /\ epc = "story"
    /\ \E reply \in StoryReplies :
         eresp' = EggResp(ereq, glmEggStory(reply,
                            Slice0(safeTasksByCategory(ereq.poi, ereq.playMin), 3)))
    /\ epc' = "done"
    /\ UNCHANGED << ereq, eggCalls >>
    /\ UNCHANGED << pvars, gvars, ovars >>

ENext == EggGate \/ EggStory

\* ------------------------------------------------------------------------
\* Arrival verification: POST /api/egg-verify
\* ------------------------------------------------------------------------
\* Positions are points of the local tangent plane at the destination, in
\* decimeters east and north; at the distances of the verifier (radius at most
\* 1000 m) the great-circle distance of two points is their plane distance.
\* A distance is carried as its square (dm^2), so comparisons are exact.

DefaultRadiusMeter == 140

\* haversineMeters(a, b), squared, in dm^2
haversineSqDm(a, b) == (a.x - b.x) * (a.x - b.x) + (a.y - b.y) * (a.y - b.y)

MaxDistanceMeter == 400

\* Math.round(dist) in meters for dist = sqrt(d2) decimeters (round half up)
RoundMeters(d2) ==
    CHOOSE n \in 0..MaxDistanceMeter :
        /\ n = 0 \/ (10 * n - 5) * (10 * n - 5) <= d2
        /\ d2 < (10 * n + 5) * (10 * n + 5)

\* a verifier that needs the user strictly inside the circle (variant for sensitivity)
VerifyReachedStrict(d2, radiusMeter) == d2 < (radiusMeter * 10) * (radiusMeter * 10)

\* const reached = dist <= parsed.data.radiusMeter
VerifyReached(d2, radiusMeter) == d2 <= (radiusMeter * 10) * (radiusMeter * 10)

VerifyPoints ==
    { [x |-> a, y |-> b] : a \in {0, 840, 1410}, b \in {0, 1120, 1400, 1404, 1405} }

\* destLocation whose two fields are not both finite numbers
BadLocation == [x |-> -1, y |-> -1]

\* radiusMeter 0 stands for "not sent" (the schema's default applies)
VerifyRequests ==
    [ user : VerifyPoints, dest : VerifyPoints \cup {BadLocation},
      radiusMeter : {0, 30, 140, 141} ]

NoVerifyResp == [status |-> 0, ok |-> FALSE, reached |-> FALSE, distanceMeter |-> 0,
                 radiusMeter |-> 0]

VIdle ==
    /\ vreq = [user |-> [x |-> 0, y |-> 0], dest |-> [x |-> 0, y |-> 0], radiusMeter |-> 0]
    /\ vpc = "idle"
    /\ vresp = NoVerifyResp

VInit ==
    /\ vreq \in VerifyRequests
    /\ vpc = "idle"
    /\ vresp = NoVerifyResp

\* the handler for a body that passed VerifySchema and whose destLocation parses
Verify ==
    /\ vpc = "idle"
    /\ vreq.dest # BadLocation
    /\ LET radius == IF vreq.radiusMeter = 0 THEN DefaultRadiusMeter ELSE vreq.radiusMeter
           d2 == haversineSqDm(vreq.user, vreq.dest)
       IN vresp' = [ status |-> 200, ok |-> TRUE, reached |-> VerifyReached(d2, radius),
                     distanceMeter |-> RoundMeters(d2), radiusMeter |-> radius ]
    /\ vpc' = "done"
    /\ UNCHANGED vreq
    /\ UNCHANGED << pvars, gvars, evars, ivars, rvars, xvars >>

\* destLocation does not split into two finite numbers: 400 Invalid destLocation
VerifyBadLocation ==
    /\ vpc = "idle"
    /\ vreq.dest = BadLocation
    /\ vresp' = [NoVerifyResp EXCEPT !.status = 400]
    /\ vpc' = "done"
    /\ UNCHANGED vreq
    /\ UNCHANGED << pvars, gvars, evars, ivars, rvars, xvars >>

VNext == Verify \/ VerifyBadLocation

\* ------------------------------------------------------------------------
\* Intent resolution of successive requests while enrichment calls of the same
\* process are under way (cache, queue and provider replies change in between)
\* ------------------------------------------------------------------------
NumRequests == 2
RequestIds == 1..NumRequests
IntentMoods == {moodPark, moodCoffee}

NoProfile == [keywords |-> <<>>, primaryIntent |-> "", confidence |-> 0, source |-> ""]

\* cacheSeen records whether guideCache held an entry when the request was resolved
NoIntent(mood) == [mood |-> mood, done |-> FALSE, profile |-> NoProfile, cacheSeen |-> FALSE]

IIdle == intents = [k \in RequestIds |-> NoIntent(<<>>)]

IInit == intents \in [RequestIds -> {NoIntent(m) : m \in IntentMoods}]

\* the handler of request k builds its intentProfile (no categories sent)
ResolveIntent(k) ==
    /\ ~intents[k].done
    /\ intents' = [intents EXCEPT
                     ![k].done = TRUE,
                     ![k].profile = intentProfileOf([PlainRequest EXCEPT !.mood = intents[k].mood]),
                     ![k].cacheSeen = \E key \in CacheKeys : guideCache[key].present]
    /\ UNCHANGED << pvars, gvars, evars, vvars, rvars, xvars >>

\* ------------------------------------------------------------------------
\* suggestedRadiusMeters applied to every window length, minute by minute
\* ------------------------------------------------------------------------
MaxMinutes == 1440

RadiiAt(m) == [md \in Modes |-> suggestedRadiusMeters(md, m)]

RIdle ==
    /\ minutes = 0
    /\ radii = RadiiAt(0)
    /\ prevRadii = RadiiAt(0)

\* the next window length
RadiusStep ==
    /\ minutes < MaxMinutes
    /\ minutes' = minutes + 1
    /\ prevRadii' = radii
    /\ radii' = RadiiAt(minutes + 1)
    /\ UNCHANGED << pvars, gvars, evars, vvars, ivars, xvars >>

\* ------------------------------------------------------------------------
\* The web UI: onRecommend, onEgg, onVerifyEgg
\* ------------------------------------------------------------------------
\* result.location of the recommendations the server may return
UiLocations == {"locA", "locB"}

NoData == [present |-> FALSE, empty |-> FALSE, location |-> ""]
NoEggData == [present |-> FALSE, eligible |-> FALSE, destLocation |-> ""]
NoVerifyCall == [sent |-> FALSE, dest |-> "", shown |-> ""]
NoVerifyResult == [present |-> FALSE, reached |-> FALSE]

\* data is a recommendation with a destination: data && data.ok && !data.empty
HasResult == data.present /\ ~data.empty

UIdle ==
    /\ data = NoData
    /\ loading = FALSE
    /\ recommendCall = "none"
    /\ eggData = NoEggData
    /\ eggLoading = FALSE
    /\ eggCall = ""
    /\ verifyLoading = FALSE
    /\ verifyCall = NoVerifyCall
    /\ verifyResult = NoVerifyResult

\* a click on either recommend button (both disabled={loading}), up to await recommend(...)
onRecommend ==
    /\ ~loading
    /\ loading' = TRUE
    /\ recommendCall' = "sent"
    /\ UNCHANGED << data, eggData, eggLoading, eggCall, verifyLoading, verifyCall,
                    verifyResult >>
    /\ UNCHANGED << pvars, gvars, evars, vvars, ivars, rvars, kvars, avars >>

\* recommend(...) resolves: setData(resp), setEggData(null), setVerifyResult(null); a
\* recommendation with a destination is then drawn on the map (await ensureMap)
recommendReturned ==
    /\ recommendCall = "sent"
    /\ \E r \in { [present |-> TRUE, empty |-> TRUE, location |-> ""] }
                \cup { [present |-> TRUE, empty |-> FALSE, location |-> l] : l \in UiLocations } :
         /\ data' = r
         /\ IF r.empty THEN recommendCall' = "none" /\ loading' = FALSE
            ELSE recommendCall' = "drawing" /\ loading' = loading
    /\ eggData' = NoEggData
    /\ verifyResult' = NoVerifyResult
    /\ UNCHANGED << eggLoading, eggCall, verifyLoading, verifyCall >>
    /\ UNCHANGED << pvars, gvars, evars, vvars, ivars, rvars, kvars, avars >>

\* locate() or recommend(...) rejects: setErrorMsg, finally setLoading(false)
recommendFailed ==
    /\ recommendCall = "sent"
    /\ recommendCall' = "none"
    /\ loading' = FALSE
    /\ UNCHANGED << data, eggData, eggLoading, eggCall, verifyLoading, verifyCall,
                    verifyResult >>
    /\ UNCHANGED << pvars, gvars, evars, vvars, ivars, rvars, kvars, avars >>

\* the map is drawn (or drawing throws): finally setLoading(false)
mapDrawn ==
    /\ recommendCall = "drawing"
    /\ recommendCall' = "none"
    /\ loading' = FALSE
    /\ UNCHANGED << data, eggData, eggLoading, eggCall, verifyLoading, verifyCall,
                    verifyResult >>
    /\ UNCHANGED << pvars, gvars, evars, vvars, ivars, rvars, kvars, avars >>

\* a click on the side-quest button (disabled={eggLoading}), up to await getEgg(...)
onEgg ==
    /\ HasResult
    /\ ~eggLoading
    /\ eggLoading' = TRUE
    /\ verifyResult' = NoVerifyResult
    /\ eggCall' = data.location
    /\ UNCHANGED << data, loading, recommendCall, eggData, verifyLoading, verifyCall >>
    /\ UNCHANGED << pvars, gvars, evars, vvars, ivars, rvars, kvars, avars >>

\* getEgg(...) resolves: setEggData(resp); verify.destLocation is the poi.location sent
eggReturned ==
    /\ eggCall # ""
    /\ \E eligible \in BOOLEAN :
         eggData' = [ present |-> TRUE, eligible |-> eligible,
                      destLocation |-> IF eligible THEN eggCall ELSE "" ]
    /\ eggCall' = ""
    /\ eggLoading' = FALSE
    /\ UNCHANGED << data, loading, recommendCall, verifyLoading, verifyCall, verifyResult >>
    /\ UNCHANGED << pvars, gvars, evars, vvars, ivars, rvars, kvars, avars >>

\* getEgg(...) rejects: setEggErr, finally setEggLoading(false)
eggFailed ==
    /\ eggCall # ""
    /\ eggCall' = ""
    /\ eggLoading' = FALSE
    /\ UNCHANGED << data, loading, recommendCall, eggData, verifyLoading, verifyCall,
                    verifyResult >>
    /\ UNCHANGED << pvars, gvars, evars, vvars, ivars, rvars, kvars, avars >>

\* a click on the arrival button (rendered for an eligible eggData, disabled={verifyLoading}),
\* up to await verifyEgg(...)
onVerifyEgg ==
    /\ eggData.present /\ eggData.eligible
    /\ ~verifyLoading
    /\ verifyLoading' = TRUE
    /\ verifyCall' = [ sent |-> TRUE, dest |-> eggData.destLocation,
                       shown |-> IF HasResult THEN data.location ELSE "" ]
    /\ UNCHANGED << data, loading, recommendCall, eggData, eggLoading, eggCall, verifyResult >>
    /\ UNCHANGED << pvars, gvars, evars, vvars, ivars, rvars, kvars, avars >>

\* locate() and verifyEgg(...) settle: setVerifyResult(resp) or setEggErr
verifyReturned ==
    /\ verifyCall.sent
    /\ \E ok \in BOOLEAN, reached \in BOOLEAN :
         verifyResult' = IF ok THEN [present |-> TRUE, reached |-> reached] ELSE verifyResult
    /\ verifyCall' = NoVerifyCall
    /\ verifyLoading' = FALSE
    /\ UNCHANGED << data, loading, recommendCall, eggData, eggLoading, eggCall >>
    /\ UNCHANGED << pvars, gvars, evars, vvars, ivars, rvars, kvars, avars >>

\* ------------------------------------------------------------------------
\* Category affinity: poiAffinity on its own
\* ------------------------------------------------------------------------
IntentPrimaries == {"park", "food", "shopping", "culture", "movie", "spa", "other"}

\* 万达广场 / 购物服务;商场, 公园咖啡 / 餐饮服务;咖啡厅, 万达影城 / 体育休闲服务;影剧院;电影院,
\* 清江温泉 / 体育休闲服务;洗浴推拿场所, 便民服务站 / 生活服务
AffinityPois ==
    { [name |-> poiPark.name, category |-> poiPark.type],
      [name |-> poiBbq.name, category |-> poiBbq.type],
      [name |-> poiCafe.name, category |-> poiCafe.type],
      [name |-> <<"yi2", "chang1">> \o kw.BoWuGuan, category |-> topCulture \o sc \o kw.BoWuGuan],
      [name |-> <<"wan", "da", "guang3", "chang">>, category |-> topShopping \o sc \o kw.ShangChang],
      [name |-> kw.GongYuan \o kw.KaFei, category |-> topFood \o sc \o <<"ka", "fei", "ting">>],
      [name |-> <<"wan", "da", "ying", "cheng">>,
       category |-> <<"ti", "yu4", "xiu", "xian">> \o sc \o <<"ying", "ju", "yuan4">> \o sc
                    \o kw.DianYingYuan],
      [name |-> <<"qing", "jiang">> \o kw.WenQuan,
       category |-> <<"ti", "yu4", "xiu", "xian">> \o sc \o <<"xi", "yu", "tui", "na">>],
      [name |-> <<"bian", "min", "fu", "wu4", "zhan4">>, category |-> <<"sheng", "huo", "fu", "wu4">>] }

AIdle ==
    /\ aprimary = "other"
    /\ apoi = [name |-> poiPark.name, category |-> poiPark.type]
    /\ apc = "idle"
    /\ aout = 0

AInit ==
    /\ aprimary \in IntentPrimaries
    /\ apoi \in AffinityPois
    /\ apc = "idle"
    /\ aout = 0

Affinity ==
    /\ apc = "idle"
    /\ aout' = poiAffinity(aprimary, apoi)
    /\ apc' = "done"
    /\ UNCHANGED << aprimary, apoi >>
    /\ UNCHANGED << pvars, gvars, evars, vvars, ivars, rvars, kvars, uvars >>

\* ------------------------------------------------------------------------
\* Model-backed intent profile: glmIntentProfile
\* ------------------------------------------------------------------------
MergedKeywordCap == 6
IntentCooldownMs == 30000
MaxProfileCalls == 2

ProfileMoods == {<<>>, moodPark, moodCoffee, moodSpa}

\* keyword lists a model reply may carry; the prompt asks for 1-5 keywords, the
\* schema accepts any number of strings
ModelKeywordLists ==
    { <<>>,
      <<kw.GongYuan>>,
      <<kw.KaFei, <<"sp">>, kw.TianPin>>,
      <<kw.KaFei, kw.TianPin, kw.XiaoChi, kw.YeShi, kw.ShangChang>>,
      <<kw.KaFei, kw.TianPin, kw.XiaoChi, kw.YeShi, kw.ShangChang, kw.DianYingYuan,
        kw.BoWuGuan>> }

\* status 0: no HTTP response (timeout, network error); parses: JSON.parse succeeds;
\* valid: IntentProfileSchema accepts; confidence x100
IntentReply(status, parses, valid, keywords, primaryIntent, confidence) ==
    [ status |-> status, parses |-> parses, valid |-> valid, keywords |-> keywords,
      primaryIntent |-> primaryIntent, confidence |-> confidence ]

NoIntentReply == IntentReply(-1, FALSE, FALSE, <<>>, "", 0)

IntentReplies ==
    { IntentReply(429, FALSE, FALSE, <<>>, "", 0),
      IntentReply(0, FALSE, FALSE, <<>>, "", 0),
      IntentReply(200, FALSE, FALSE, <<>>, "", 0),
      IntentReply(200, TRUE, FALSE, <<>>, "", 0) }
    \cup { IntentReply(200, TRUE, TRUE, ks, pi, cf) :
             ks \in ModelKeywordLists, pi \in {"park", "food"}, cf \in {0, 60, 90} }

\* glmIntentProfile once its HTTP call has settled
glmIntentProfile(mood, reply) ==
    IF reply.status # 200 \/ ~reply.parses \/ ~reply.valid
    THEN ruleProfileOf(mood, heuristicKeywords(mood))
    ELSE LET trimmed == [i \in 1..Len(reply.keywords) |-> Trim(reply.keywords[i])]
             kws == SelectSeq(trimmed, LAMBDA k : k # <<>>)
             mergedKeywords == Slice0(Dedup(kws \o heuristicKeywords(mood)), MergedKeywordCap)
             inferred == inferIntentPrimary(mood, mergedKeywords)
             aiPrimary == reply.primaryIntent
             \* clamp(Number(parsed.data.confidence || 0.5), 0, 1)
             aiConf == clamp(IF reply.confidence = 0 THEN 50 ELSE reply.confidence, 0, 100)
             trustAi == aiConf >= 70
             conflictWithStrongRule ==
                 inferred.strong /\ aiPrimary # inferred.primary /\ aiConf < 85
         IN [ keywords |-> mergedKeywords,
              primaryIntent |-> IF trustAi /\ ~conflictWithStrongRule THEN aiPrimary
                                ELSE inferred.primary,
              confidence |-> aiConf,
              source |-> "glm" ]

KIdle ==
    /\ kmood = <<>>
    /\ kpc = "idle"
    /\ kcalls = 0
    /\ kreply = NoIntentReply
    /\ kout = NoProfile
    /\ glmCooldownUntil = 0

KInit ==
    /\ kmood \in ProfileMoods
    /\ kpc = "idle"
    /\ kcalls = 0
    /\ kreply = NoIntentReply
    /\ kout = NoProfile
    /\ glmCooldownUntil = 0

\* the synchronous part: credential check, cooldown check, cache lookup (intentCache is
\* never written, so the lookup always misses), then the HTTP call is sent
IntentEnter ==
    /\ kpc \in {"idle", "done"}
    /\ kcalls < MaxProfileCalls
    /\ kcalls' = kcalls + 1
    /\ kreply' = NoIntentReply
    /\ IF ~hasKey \/ now < glmCooldownUntil
       THEN /\ kout' = ruleProfileOf(kmood, heuristicKeywords(kmood))
            /\ kpc' = "done"
       ELSE /\ kout' = NoProfile
            /\ kpc' = "calling"
    /\ UNCHANGED << kmood, glmCooldownUntil >>
    /\ UNCHANGED << pvars, gvars, evars, vvars, ivars, rvars, avars, uvars >>

\* the HTTP call settles: the merged profile, or the catch block (cooldown on 429)
IntentReplied ==
    /\ kpc = "calling"
    /\ \E reply \in IntentReplies :
         /\ kreply' = reply
         /\ kout' = glmIntentProfile(kmood, reply)
         /\ glmCooldownUntil' = IF reply.status = 429
                                THEN Max2(glmCooldownUntil, now + IntentCooldownMs)
                                ELSE glmCooldownUntil
    /\ kpc' = "done"
    /\ UNCHANGED << kmood, kcalls >>
    /\ UNCHANGED << pvars, gvars, evars, vvars, ivars, rvars, avars, uvars >>

KNext == IntentEnter \/ IntentReplied

XIdle == KIdle /\ AIdle /\ UIdle

OIdle == VIdle /\ IIdle /\ RIdle /\ XIdle

Init == PInit /\ GIdle /\ EIdle /\ OIdle
Next == PNext
Spec == Init /\ [][Next]_vars

InitGlm == PIdle /\ GInit /\ EIdle /\ OIdle
NextGlm == GNext
SpecGlm == InitGlm /\ [][NextGlm]_vars

\* the provider call settles (reply, error or the 15 s timeout), timers fire, and a
\* queued continuation runs once its predecessor has settled
FairGlm ==
    \A c \in Calls :
        WF_vars(GReply(c)) /\ WF_vars(GWake(c)) /\ WF_vars(GStart(c))
SpecGlmFair == InitGlm /\ [][NextGlm]_vars /\ FairGlm

InitEgg == PIdle /\ GInit /\ EInit /\ OIdle
NextEgg == ENext
SpecEgg == InitEgg /\ [][NextEgg]_vars

\* the local server with recommend enrichments and one /api/egg request side by side
EggConcurrentRequests ==
    { r \in EggRequests :
        /\ r.mode = "walk" /\ r.mood = <<>> /\ r.playMin = -1 /\ r.poi.location = "park"
        /\ r.startTime = HHmm(9, 0) /\ r.endTime \in {HHmm(11, 0), HHmm(23, 0)} }
InitServer ==
    /\ PIdle /\ GInit /\ OIdle
    /\ ereq \in EggConcurrentRequests
    /\ epc = "idle"
    /\ eggCalls = 0
    /\ eresp = NoEggResp
NextServer ==
    \/ \E c \in Calls : GEnter(c)
    \/ \E c \in Calls : GStart(c)
    \/ \E c \in Calls : GReply(c)
    \/ \E c \in Calls : GWake(c)
    \/ Tick
    \/ EggGate
    \/ EggStory
SpecServer == InitServer /\ [][NextServer]_vars


InitVerify == PIdle /\ GIdle /\ EIdle /\ VInit /\ IIdle /\ RIdle /\ XIdle
NextVerify == VNext
SpecVerify == InitVerify /\ [][NextVerify]_vars

\* a process with a narrative-provider credential
InitIntent == PIdle /\ GInit /\ hasKey /\ EIdle /\ VIdle /\ IInit /\ RIdle /\ XIdle
NextIntent ==
    \/ \E k \in RequestIds : ResolveIntent(k)
    \/ \E c \in Calls : GEnter(c)
    \/ \E c \in Calls : GStart(c)
    \/ \E c \in Calls : GReply(c)
    \/ \E c \in Calls : GWake(c)
    \/ Tick
SpecIntent == InitIntent /\ [][NextIntent]_vars

InitProfile == PIdle /\ GInit /\ EIdle /\ VIdle /\ IIdle /\ RIdle /\ KInit /\ AIdle /\ UIdle
NextProfile == KNext
SpecProfile == InitProfile /\ [][NextProfile]_vars

InitAffinity == PIdle /\ GIdle /\ EIdle /\ VIdle /\ IIdle /\ RIdle /\ KIdle /\ AInit /\ UIdle
NextAffinity == Affinity
SpecAffinity == InitAffinity /\ [][NextAffinity]_vars

InitUi == PIdle /\ GIdle /\ EIdle /\ OIdle
NextUi ==
    \/ onRecommend
    \/ recommendReturned
    \/ recommendFailed
    \/ mapDrawn
    \/ onEgg
    \/ eggReturned
    \/ eggFailed
    \/ onVerifyEgg
    \/ verifyReturned
SpecUi == InitUi /\ [][NextUi]_vars

InitRadius == PIdle /\ GIdle /\ EIdle /\ OIdle
NextRadius == RadiusStep
SpecRadius == InitRadius /\ [][NextRadius]_vars

\* ------------------------------------------------------------------------
\* Properties of POST /api/recommend (specification Spec)
\* ------------------------------------------------------------------------
\* the handler has answered with a plan (ok, empty=false)
IsPlan == pc = "done" /\ resp.status = 200 /\ ~resp.empty
\* the handler has answered with an empty outcome
IsEmpty == pc = "done" /\ resp.status = 200 /\ resp.empty
\* the chain has run
Selected == pc \in {"routing", "enrich", "done"} /\ searchCalls > 0 /\ limit # <<>>
              /\ resp.status # 500

\* the intent profile, the intent and the initial minimum stay of the current request
ProfileNow == intentProfileOf(req)
IntentNow == intentOf(ProfileNow)
MinStayNow == initialMinStayOf(req, ProfileNow)

\* the scored candidates of the current request (affinity, estimates and the
\* keyword pre-filter do not depend on the novelty draw)
MappedNow ==
    Mapped(limit, req.mode, safeAvailableMinOf(req), ProfileNow.keywords,
           IntentNow, [i \in 1..Len(limit) |-> 70])
\* every gathered candidate scored, before the keyword pre-filter
ScoredNow ==
    [ i \in 1..Len(limit) |->
        ScoreOne(limit[i], req.mode, safeAvailableMinOf(req),
                 ProfileNow.keywords, IntentNow, 70) ]
FloorNow == IF Len(ProfileNow.keywords) > 0 THEN 1 ELSE 6
ClampedWindow == clamp(minutesBetween(req.startTime, req.endTime), 30, 600)

\* C1: every plan closes the time budget, goMin + playMin + backMin equal to the
\* requested window clamped to [30, 600] with playMin >= 0; and whenever the two
\* routed legs together exceed the clamped window the answer is the empty outcome.
C1_TimeBudget ==
    /\ IsPlan => /\ resp.goMin + resp.playMin + resp.backMin = ClampedWindow
                 /\ resp.playMin >= 0
    /\ (pc = "done" /\ routeCalls = 2 /\ route.goMin + route.backMin > ClampedWindow)
          => (resp.status = 200 /\ resp.empty /\ resp.playMin = 0)

\* a plan for a window longer than 600 minutes, with real travel and real play time
C1_Witness ==
    IsPlan /\ availableMinOf(req) > 600 /\ resp.goMin > 1 /\ resp.playMin > 0

\* C2 (as claimed): every plan fits the window the user asked for, goMin + playMin +
\* backMin <= minutesBetween(startTime, endTime), and the reported availableMin is
\* that requested length.
C2_FitsRequestedWindow ==
    IsPlan => /\ resp.goMin + resp.playMin + resp.backMin <= availableMinOf(req)
              /\ resp.availableMin = availableMinOf(req)

\* C3 (as claimed): with allowRelax=false the response carries no relaxation note, the
\* minimum stay is not lowered, a returned destination meets the original minimum stay
\* and the one-way floor, and when no candidate meets both the answer is the empty outcome.
C3_NoRelaxWhenDisallowed ==
    (~req.allowRelax /\ Selected /\ pc = "done") =>
        /\ resp.relaxNotes = <<>>
        /\ chain.minStayMin = MinStayNow
        /\ IsPlan => /\ chain.rough[1].playMinEst >= MinStayNow
                     /\ chain.rough[1].oneWayMin >= FloorNow
        /\ (\A i \in 1..Len(MappedNow) :
               ~(MappedNow[i].playMinEst >= MinStayNow
                   /\ MappedNow[i].oneWayMin >= FloorNow))
             => resp.empty

C5_IntentPurity ==
    (IsPlan /\ IntentNow.strong
       /\ \E i \in 1..Len(MappedNow) : MappedNow[i].affinity >= 70)
    => \A i \in 1..Len(resp.candidates) : chain.rough[i].affinity >= -20

\* C6 (as claimed): a plan whose playMin is below the minimum stay in force carries
\* the shortfall note, whatever allowRelax is.
C6_ShortfallDisclosed ==
    (IsPlan /\ resp.playMin >= 0 /\ resp.playMin < chain.minStayMin)
    => \E i \in 1..Len(resp.relaxNotes) : resp.relaxNotes[i] = "shortfall"

NoteRank(note) == IF note = "dwell" THEN 1 ELSE IF note = "closer" THEN 2 ELSE 3
\* step 1 of the chain leaves no candidate
Step1Empty ==
    \A i \in 1..Len(IntentFiltered(MappedNow, IntentNow)) :
        IntentFiltered(MappedNow, IntentNow)[i].playMinEst < MinStayNow

UsableReply(reply) ==
    /\ reply.status = 200 /\ reply.parses /\ reply.hasReport
    /\ reply.guideLen \in 3..6

\* C8: glmReportAndGuide always resolves with a value: without a credential it is the
\* rule fallback and no provider call is made; after a provider call whose final reply
\* is an error, a timeout, not JSON or not of the required shape it is the rule fallback;
\* a provider-sourced value is only ever a validated one; the retry loop is bounded;
\* every value the run loop hands to the recommend handler, and every resolved call,
\* has a guide of 3 to 6 entries.
C8_EnrichmentNeverFails ==
    /\ \A v \in RunValues : v.source \in {"glm", "rule"} /\ v.guideLen \in 3..6
    /\ \A c \in Calls :
          /\ glm[c].calls <= GLM_MAX_RETRY + 1
          /\ glm[c].pc = "done" =>
                /\ glm[c].result.source \in {"glm", "rule"}
                /\ glm[c].result.guideLen \in 3..6
                /\ ~hasKey => (glm[c].result = fallbackResult /\ glm[c].calls = 0)
                /\ (lastReply.call = c /\ ~UsableReply(lastReply.reply))
                      => glm[c].result = [source |-> "rule", guideLen |-> FallbackGuideLen]
                /\ (lastReply.call = c /\ UsableReply(lastReply.reply))
                      => glm[c].result = [source |-> "glm",
                                          guideLen |-> lastReply.reply.guideLen]

\* a call that used up its retries on rate limits, got a badly shaped payload on the
\* last attempt, and resolved with the rule fallback
C8_Witness ==
    \E c \in Calls :
        /\ glm[c].pc = "done" /\ glm[c].calls = GLM_MAX_RETRY + 1
        /\ lastReply = [call |-> c, reply |-> GlmReply(200, TRUE, TRUE, 2)]
        /\ glm[c].result = fallbackResult

\* C9: runs submitted through withGlmLock are mutually exclusive (a run covers its calls
\* and its backoff sleeps) and start in submission order: a run has started only if every
\* run submitted before it has settled; and once every earlier run has settled, however
\* it ended, the next run is able to start.
C9_LockIsFifoMutex ==
    /\ \A c, d \in Calls : (Running(c) /\ Running(d)) => c = d
    /\ \A c, d \in Calls :
          (glm[c].seq > 0 /\ glm[c].seq < glm[d].seq
             /\ glm[d].pc \in {"calling", "sleeping", "done"})
          => glm[c].pc = "done"
    /\ \A d \in Calls :
          (glm[d].pc = "queued"
             /\ \A c \in Calls : (glm[c].seq > 0 /\ glm[c].seq < glm[d].seq)
                                    => glm[c].pc = "done")
          => ENABLED GStart(d)

\* a run that failed after a retry has settled with the fallback and the run submitted
\* after it is now calling the provider
C9_Witness ==
    \E c, d \in Calls :
        /\ glm[c].seq = 1 /\ glm[d].seq = 2
        /\ glm[c].pc = "done" /\ glm[c].calls = 2 /\ glm[c].result.source = "rule"
        /\ glm[d].pc = "calling"

\* ------------------------------------------------------------------------
\* Properties of POST /api/egg (specification SpecEgg)
\* ------------------------------------------------------------------------
\* the window of the request, read off the clock fields
EndNotBeforeStart ==
    \/ ereq.endTime[1] > ereq.startTime[1]
    \/ ereq.endTime[1] = ereq.startTime[1] /\ ereq.endTime[2] >= ereq.startTime[2]
StartsInBand == ereq.startTime[1] >= 6
EndsInBand == ereq.endTime[1] < 20 \/ ereq.endTime = <<20, 0>>

\* C10: the answer is eligible exactly when the window does not cross midnight and lies
\* inside 06:00-20:00, whatever mode, mood, city, poi and playMin are; 09:00-11:00 is
\* eligible, 19:30-21:00 and 23:00-01:00 are not; an ineligible answer has no side quest,
\* no tasks, and no narrative-provider call was made for it.
C10_DaytimeGate ==
    /\ isDaytimeWindow(HHmm(9, 0), HHmm(11, 0))
    /\ ~isDaytimeWindow(HHmm(19, 30), HHmm(21, 0))
    /\ ~isDaytimeWindow(HHmm(23, 0), HHmm(1, 0))
    /\ epc = "story" => (EndNotBeforeStart /\ StartsInBand /\ EndsInBand)
    /\ epc = "done" =>
          /\ eresp.status = 200 /\ eresp.ok
          /\ eresp.eligible <=> (EndNotBeforeStart /\ StartsInBand /\ EndsInBand)
          /\ ~eresp.eligible =>
                (~eresp.hasEgg /\ eresp.tasks = <<>> /\ eggCalls = 0)

\* 19:30-21:00 answered ineligible although a credential is configured
C10_Witness ==
    /\ epc = "done" /\ hasKey
    /\ ereq.startTime = HHmm(19, 30) /\ ereq.endTime = HHmm(21, 0)
    /\ ~eresp.eligible /\ eggCalls = 0

\* ------------------------------------------------------------------------
\* Properties of POST /api/egg-verify (specification SpecVerify)
\* ------------------------------------------------------------------------
\* the squared distance (dm^2) between the user and the destination of the request
VerifyDistSq ==
    (vreq.user.x - vreq.dest.x) * (vreq.user.x - vreq.dest.x)
      + (vreq.user.y - vreq.dest.y) * (vreq.user.y - vreq.dest.y)
\* the radius in force, meters: the one sent, else 140
VerifyRadiusNow == IF vreq.radiusMeter = 0 THEN 140 ELSE vreq.radiusMeter

\* C11: a verification answer has reached = (distance <= radius) for the radius in
\* force; a user at exactly the destination gets reached=true and distanceMeter=0; a
\* user 141 m away with the default radius (140) gets reached=false, and one exactly
\* 140 m away gets reached=true.
C11_ArrivalVerified ==
    (vpc = "done" /\ vresp.status = 200) =>
        /\ vresp.reached <=> (VerifyDistSq <= 100 * VerifyRadiusNow * VerifyRadiusNow)
        /\ vresp.radiusMeter = VerifyRadiusNow
        /\ vreq.user = vreq.dest => (vresp.reached /\ vresp.distanceMeter = 0)
        /\ (vreq.radiusMeter = 0 /\ VerifyDistSq = 1410 * 1410) => ~vresp.reached
        /\ (vreq.radiusMeter = 0 /\ VerifyDistSq = 1400 * 1400) => vresp.reached

\* a user 141 m east of the destination, no radius sent: not reached, 141 m reported
C11_Witness ==
    /\ vpc = "done" /\ vresp.status = 200
    /\ vreq.radiusMeter = 0 /\ vreq.user.y = vreq.dest.y /\ vreq.user.x - vreq.dest.x = 1410
    /\ ~vresp.reached /\ vresp.distanceMeter = 141

\* ------------------------------------------------------------------------
\* Input validation of POST /api/recommend (specification Spec)
\* ------------------------------------------------------------------------
\* a time text that is a time of day: two fields, hour 0..23, minute 0..59
IsTimeOfDay(t) == Len(t) = 2 /\ t[1] \in 0..23 /\ t[2] \in 0..59
\* the body is what the interface asks for
WellFormedRequest ==
    /\ IsTimeOfDay(req.startTime) /\ IsTimeOfDay(req.endTime)
    /\ req.origin.lng \in -180..180 /\ req.origin.lat \in -90..90
    /\ req.minStayMin \in -1..1440

\* C12 (as claimed): a request whose startTime or endTime is not a valid HH:mm time of
\* day, or whose coordinates or minStayMin are out of range, is answered 400 without any
\* nearby-search or routing call and without a plan.
C12_InvalidRejected ==
    (pc = "done" /\ ~WellFormedRequest)
    => (resp.status = 400 /\ searchCalls = 0 /\ routeCalls = 0)

\* ------------------------------------------------------------------------
\* Provider failures in POST /api/recommend (specification Spec)
\* ------------------------------------------------------------------------
\* C13 (as claimed): once a nearby-search or routing call has failed, the request is
\* over and its answer is the server error: no plan, no empty-success payload, no
\* further routing and no enrichment call.
C13_ProviderFailureIsFatal ==
    provErr => (pc = "done" /\ resp.status = 500)

\* ------------------------------------------------------------------------
\* The intent profile of the response (specification Spec)
\* ------------------------------------------------------------------------
\* C14 (as claimed): the keywords list of every plan's intent profile has no duplicates
\* and at most 6 entries, whether it comes from the mood text or from categories.
C14_KeywordsBounded ==
    IsPlan =>
        /\ Len(resp.keywords) <= 6
        /\ \A i, j \in 1..Len(resp.keywords) :
              resp.keywords[i] = resp.keywords[j] => i = j

\* C14, the rule pass alone: without categories the returned list has no duplicates and
\* at most 6 entries.
C14_RuleKeywordsBounded ==
    (IsPlan /\ req.categories = <<>>) =>
        /\ Len(resp.keywords) <= 6
        /\ \A i, j \in 1..Len(resp.keywords) :
              resp.keywords[i] = resp.keywords[j] => i = j

C16_RadiusMonotone ==
    /\ \A md \in {"walk", "bike", "drive"} :
          /\ prevRadii[md] <= radii[md]
          /\ radii[md] >= 800 /\ radii[md] <= 12000
    /\ radii["drive"] >= radii["bike"] /\ radii["bike"] >= radii["walk"]

\* at 36 minutes the one-way target passes its minimum of 8: the bike radius grows from
\* 2000 to 2250 while the walk radius is still held at 800
C16_Witness ==
    /\ minutes = 36
    /\ prevRadii["bike"] = 2000 /\ radii["bike"] = 2250
    /\ radii["walk"] = 800 /\ radii["drive"] = 4950

\* ------------------------------------------------------------------------
\* Routing of POST /api/recommend (specification Spec)
\* ------------------------------------------------------------------------
IsSurvivor(id) == \E i \in 1..Len(chain.survivors) : chain.survivors[i].poi = id
\* the weight the scorer gave the surviving candidate with this id
WeightById(id) ==
    chain.survivors[CHOOSE i \in 1..Len(chain.survivors) : chain.survivors[i].poi = id].weight

\* C17: a request issues no routing call or exactly the two calls of one candidate; that
\* candidate survived the chain and no survivor is heavier; a plan returns it as the
\* destination and as the first of at most 3 alternates, which are survivors listed by
\* non-increasing weight; and when its routing gives playMin < 0 the request is over
\* with the empty outcome and still only those two calls.
C17_OneCandidateRouted ==
    /\ routeCalls \in {0, 2}
    /\ routeCalls = 2 =>
          /\ IsSurvivor(route.dest)
          /\ \A i \in 1..Len(chain.survivors) :
                chain.survivors[i].weight <= WeightById(route.dest)
    /\ IsPlan =>
          /\ routeCalls = 2
          /\ resp.result = route.dest
          /\ Len(resp.candidates) \in 1..3
          /\ resp.candidates[1] = route.dest
          /\ \A i \in 1..Len(resp.candidates) : IsSurvivor(resp.candidates[i])
          /\ \A i, j \in 1..Len(resp.candidates) :
                i < j => WeightById(resp.candidates[i]) >= WeightById(resp.candidates[j])
    /\ (routeCalls = 2 /\ route.playMin < 0) =>
          (pc = "done" /\ resp.status = 200 /\ resp.empty)

\* a plan with three alternates of three different weights whose destination is not the
\* nearest of them
C17_Witness ==
    /\ IsPlan /\ Len(resp.candidates) = 3
    /\ WeightById(resp.candidates[1]) > WeightById(resp.candidates[2])
    /\ WeightById(resp.candidates[2]) > WeightById(resp.candidates[3])
    /\ \E i \in 1..Len(chain.rough) :
          chain.rough[i].oneWayMin < chain.rough[1].oneWayMin

\* ------------------------------------------------------------------------
\* The retry loop of one enrichment run (specification SpecGlmFair)
\* ------------------------------------------------------------------------
\* what holds of a run at every moment
RetryState ==
    \A c \in Calls :
        /\ glm[c].calls <= 3
        /\ glm[c].pc = "sleeping" =>
              (lastReply.call = c /\ lastReply.reply.status = 429 /\ glm[c].calls < 3)
        /\ (glm[c].pc = "calling" /\ glm[c].calls > 1) =>
              (lastReply.call = c /\ lastReply.reply.status = 429)
        /\ (lastReply.call = c /\ lastReply.reply.status # 429) => glm[c].pc = "done"
        /\ (glm[c].pc = "done" /\ glm[c].calls > 0 /\ lastReply.call = c) =>
              IF UsableReply(lastReply.reply)
              THEN glm[c].result = [source |-> "glm", guideLen |-> lastReply.reply.guideLen]
              ELSE glm[c].result = [source |-> "rule", guideLen |-> 4]
\* what holds of every step of a run
RetryStep ==
    \A c \in Calls :
        \* a reply sends the run to sleep only if it is a 429, and for 1200 ms x attempt number
        /\ (glm[c].pc = "calling" /\ glm'[c].pc = "sleeping") =>
              (lastReply'.reply.status = 429 /\ glm'[c].wakeAt = now + 1200 * glm[c].calls)
        \* a further call is made only from the sleep, and not before its time is over
        /\ glm'[c].calls > glm[c].calls =>
              \/ glm[c].pc = "queued" /\ glm'[c].calls = 1
              \/ glm[c].pc = "sleeping" /\ glm'[c].calls = glm[c].calls + 1
                   /\ now' >= glm[c].wakeAt
        \* a run that is over stays over
        /\ glm[c].pc = "done" => glm'[c] = glm[c]

\* C18: one run calls the provider at most 3 times; it calls again only after a 429 and
\* only after sleeping 1200 ms x (attempt number); any other failure ends it at once
\* with the fallback; and every run that has started ends, with the validated provider
\* result or the fallback.
C18_BoundedRetry ==
    /\ []RetryState
    /\ [][RetryStep]_vars
    /\ \A c \in Calls : (glm[c].pc = "calling") ~> (glm[c].pc = "done")

\* a run on its third call, after two rate-limit replies and 3600 ms of sleep
C18_Witness ==
    \E c \in Calls :
        /\ glm[c].pc = "calling" /\ glm[c].calls = 3
        /\ lastReply.call = c /\ lastReply.reply.status = 429
        /\ now >= 3600

\* ------------------------------------------------------------------------
\* The enrichment cache (specification SpecGlm)
\* ------------------------------------------------------------------------
\* call c ended with a provider call that succeeded
ProviderSucceeded(c) ==
    glm[c].pc = "done" /\ glm[c].calls > 0 /\ glm[c].result.source = "glm"

\* C19 (as claimed): while less than the TTL (10 minutes) has passed since the first
\* request, no two requests with the same enrichment input have both ended with a
\* successful provider call, whether they came one after the other or were in flight
\* together; and the cache never holds a fallback result.
C19_CacheReuse ==
    /\ now < 600000 =>
          \A c, d \in Calls :
              (c # d /\ glm[c].key = glm[d].key) =>
                  ~(ProviderSucceeded(c) /\ ProviderSucceeded(d))
    /\ \A k \in CacheKeys : guideCache[k].present => guideCache[k].value.source = "glm"

\* C19, the parts that hold: the cache never holds a fallback result; a request that
\* arrives while a live entry for its input exists is answered with that entry and
\* makes no provider call.
C19_CacheServes ==
    /\ \A k \in CacheKeys : guideCache[k].present => guideCache[k].value.source = "glm"
    /\ \A c \in Calls :
          (hasKey /\ glm[c].pc = "done" /\ glm[c].calls = 0) => glm[c].result.source = "glm"

\* ------------------------------------------------------------------------
\* Provider requests in flight (specification SpecServer)
\* ------------------------------------------------------------------------
\* HTTP requests to the narrative provider that have been sent and not yet settled
InFlight ==
    Cardinality({c \in Calls : glm[c].pc = "calling"}) + (IF epc = "story" THEN 1 ELSE 0)

\* C20 (as claimed): at any moment at most one narrative-provider HTTP request is in
\* flight, counting the report/guide calls of /api/recommend and the story call of
\* /api/egg together.
C20_OneInFlight == InFlight <= 1

\* C20, the part that holds: the report/guide calls alone are never in flight together.
C20_GuideCallsSerialized ==
    Cardinality({c \in Calls : glm[c].pc = "calling"}) <= 1

\* ------------------------------------------------------------------------
\* The default-keyword fallback search (specification Spec)
\* ------------------------------------------------------------------------
\* C21 (as claimed): the default keyword list is searched at most once, and only after an
\* intent-keyword search that found nothing; when it ran and some place it returned
\* leaves at least the minimum stay, the answer is a plan unless the real routing of the
\* destination exceeded the window.
C21_FallbackPlacesEligible ==
    /\ fallbackRuns \in {0, 1}
    /\ fallbackRuns = 1 => Len(ProfileNow.keywords) > 0
    /\ (pc = "done" /\ resp.status = 200 /\ fallbackRuns = 1 /\ ~provErr
          /\ resp.message # "retry"
          /\ \E i \in 1..Len(ScoredNow) : ScoredNow[i].playMinEst >= MinStayNow)
       => ~resp.empty

\* C21, the part that holds: the default list is searched at most once and only
\* after an intent-keyword search.
C21_FallbackRunsOnce ==
    /\ fallbackRuns \in {0, 1}
    /\ fallbackRuns = 1 => Len(ProfileNow.keywords) > 0

\* ------------------------------------------------------------------------
\* The floor-drop step of the constraint chain (specification Spec)
\* ------------------------------------------------------------------------
\* the chain recorded the note that closer places are allowed
CloserNoted == \E i \in 1..Len(chain.relaxNotes) : chain.relaxNotes[i] = "closer"

\* C22 (as claimed): the note that closer places are allowed is recorded only when some
\* candidate had passed the dwell-time filter and every such candidate was below the
\* one-way floor; and the candidates left after the floor is dropped all had passed
\* the filters before the floor.
C22_FloorNoteOnlyWhenLoosened ==
    Selected =>
        /\ CloserNoted =>
              /\ chain.dwellPassed # <<>>
              /\ \A i \in 1..Len(chain.dwellPassed) : chain.dwellPassed[i].oneWayMin < FloorNow
        /\ \A i \in 1..Len(chain.survivors) :
              \E j \in 1..Len(chain.dwellPassed) : chain.dwellPassed[j] = chain.survivors[i]

\* C22, the part that holds: the note is recorded exactly when no candidate that
\* passed the dwell-time filter is at or above the floor.
C22_FloorNoteWhenNoneAtFloor ==
    Selected =>
        (CloserNoted <=>
            \A i \in 1..Len(chain.dwellPassed) : chain.dwellPassed[i].oneWayMin < FloorNow)

\* ------------------------------------------------------------------------
\* Scoring weights and intent strength (specification Spec)
\* ------------------------------------------------------------------------
\* a trigger fired for the current request: inferIntentPrimary returns strong = true
TriggerFired == inferIntentPrimary(req.mood, ProfileNow.keywords).strong

\* C23 (as claimed): a candidate is scored with wC=0.55, wN=0.25, wM=0.2 and the factor
\* clamp(1 + 0.6*affinity, 0.2, 1.8) when no trigger fired, with wC=0.4, wN=0.2, wM=0.2
\* and clamp(1 + 1.2*affinity, 0.05, 2.6) when one fired; and without a trigger the
\* intent-purity pass removes nothing.
C23_WeightsFollowTrigger ==
    Selected =>
        /\ \A i \in 1..Len(chain.survivors) :
              LET c == chain.survivors[i]
              IN IF TriggerFired
                 THEN /\ c.weights = [wCloseness |-> 40, wNovelty |-> 20, wMatch |-> 20]
                      /\ c.factor = clamp(100 + (c.affinity * 12) \div 10, 5, 260)
                 ELSE /\ c.weights = [wCloseness |-> 55, wNovelty |-> 25, wMatch |-> 20]
                      /\ c.factor = clamp(100 + (c.affinity * 6) \div 10, 20, 180)
        /\ ~TriggerFired => IntentFiltered(MappedNow, IntentNow) = MappedNow

\* C23, what the code does: every candidate is scored with the strong-intent weights
\* and factor, whether or not a trigger fired.
C23_AlwaysStrongWeights ==
    Selected =>
        \A i \in 1..Len(chain.survivors) :
            LET c == chain.survivors[i]
            IN /\ c.weights = [wCloseness |-> 40, wNovelty |-> 20, wMatch |-> 20]
               /\ c.factor = clamp(100 + (c.affinity * 12) \div 10, 5, 260)

\* ------------------------------------------------------------------------
\* The model-backed intent profile (specification SpecProfile)
\* ------------------------------------------------------------------------
\* the keyword list holds the keyword
HasKeyword(keywords, k) == \E i \in 1..Len(keywords) : keywords[i] = k

\* C24 (as claimed): a profile with source glm lists every keyword of
\* heuristicKeywords(mood), each keyword once; and a call that did not get a
\* schema-valid reply returns the rule profile.
C24_RuleKeywordsKept ==
    kpc = "done" =>
        LET rule == heuristicKeywords(kmood)
        IN /\ kout.source = "glm" =>
                /\ \A i \in 1..Len(rule) : HasKeyword(kout.keywords, rule[i])
                /\ \A i, j \in 1..Len(kout.keywords) :
                      kout.keywords[i] = kout.keywords[j] => i = j
           /\ (kreply.status # 200 \/ ~kreply.parses \/ ~kreply.valid) =>
                kout = ruleProfileOf(kmood, rule)

\* C24, the part that holds: no keyword is listed twice, a profile with source glm
\* comes only from a schema-valid reply, and every other call returns the rule profile.
C24_FailureGivesRuleProfile ==
    kpc = "done" =>
        /\ \A i, j \in 1..Len(kout.keywords) : kout.keywords[i] = kout.keywords[j] => i = j
        /\ IF kreply.status = 200 /\ kreply.parses /\ kreply.valid
           THEN kout.source = "glm"
           ELSE kout = ruleProfileOf(kmood, heuristicKeywords(kmood))

\* ------------------------------------------------------------------------
\* Search radius against the ranking ideal (specification SpecRadius)
\* ------------------------------------------------------------------------
\* C25 (as claimed): for every mode and every window of 30 to 600 minutes the search
\* radius is at least the distance covered in the ideal one-way time,
\* clamp(round(0.2 * availableMinutes), 10, 30) * metersPerMin(mode).
C25_RadiusCoversIdeal ==
    (minutes >= 30 /\ minutes <= 600) =>
        \A md \in Modes : radii[md] >= idealOneWayOf(minutes) * metersPerMin(md)

\* C25, the part that holds: from 40 minutes on the radius covers the ideal one-way
\* distance on foot and by bike, and by car up to 107 minutes.
C25_RadiusCoversIdealFrom40 ==
    /\ (minutes >= 40 /\ minutes <= 600) =>
          \A md \in {"walk", "bike"} : radii[md] >= idealOneWayOf(minutes) * metersPerMin(md)
    /\ (minutes >= 40 /\ minutes <= 107) =>
          radii["drive"] >= idealOneWayOf(minutes) * metersPerMin("drive")

\* ------------------------------------------------------------------------
\* Category affinity (specification SpecAffinity)
\* ------------------------------------------------------------------------
\* the place is of park type / is a food venue, by its name and category
ParkType(poi) ==
    \/ Test(reIs.ParkFull, poi.name \o <<"sp">> \o poi.category)
    \/ poiTopType(poi.category) = topScenic
    \/ Test(reIs.ParkCategory, poi.category)
FoodVenue(poi) ==
    poiTopType(poi.category) = topFood \/ Test(reIs.Food, poi.name \o <<"sp">> \o poi.category)

\* C26 (as claimed): a park-type place gets +1 under primaryIntent=park and, when it is
\* not a food venue, -0.85 under primaryIntent=food; a food venue that is not of park
\* type gets -0.85 under primaryIntent=park; every value lies in [-1, 1].
C26_AffinitySymmetric ==
    apc = "done" =>
        /\ (aprimary = "park" /\ ParkType(apoi)) => aout = 100
        /\ (aprimary = "food" /\ ParkType(apoi) /\ ~FoodVenue(apoi)) => aout = -85
        /\ (aprimary = "park" /\ FoodVenue(apoi) /\ ~ParkType(apoi)) => aout = -85
        /\ aout >= -100 /\ aout <= 100

\* C26, what the code does: the park-type place under primaryIntent=food gets -0.2;
\* the other three parts are as claimed.
C26_AffinityAsCoded ==
    apc = "done" =>
        /\ (aprimary = "park" /\ ParkType(apoi)) => aout = 100
        /\ (aprimary = "food" /\ ParkType(apoi) /\ ~FoodVenue(apoi)) => aout = -20
        /\ (aprimary = "park" /\ FoodVenue(apoi) /\ ~ParkType(apoi)) => aout = -85
        /\ aout >= -100 /\ aout <= 100

\* ------------------------------------------------------------------------
\* The radius and the reported distance of /api/egg-verify (specification SpecVerify)
\* ------------------------------------------------------------------------
\* C27 (as claimed): reached=true implies that the user is within 140 meters of the
\* destination, whatever radiusMeter the request carries.
C27_FixedRadius ==
    (vpc = "done" /\ vresp.status = 200 /\ vresp.reached) => VerifyDistSq <= 1400 * 1400

\* C27, the part that holds: a request that sends no radiusMeter, or sends 140 or
\* less, is reached only within 140 meters.
C27_DefaultRadius ==
    (vpc = "done" /\ vresp.status = 200 /\ vresp.reached /\ vreq.radiusMeter <= 140)
        => VerifyDistSq <= 1400 * 1400

\* C28 (as claimed): in every answer reached is true exactly when the reported
\* distanceMeter is at most the reported radiusMeter.
C28_ReportedDistanceDecides ==
    (vpc = "done" /\ vresp.status = 200) =>
        (vresp.reached <=> vresp.distanceMeter <= vresp.radiusMeter)

\* C28, the part that holds: reached=true implies distanceMeter <= radiusMeter, and
\* distanceMeter > radiusMeter implies reached=false.
C28_ReachedImpliesWithin ==
    (vpc = "done" /\ vresp.status = 200 /\ vresp.reached)
        => vresp.distanceMeter <= vresp.radiusMeter

\* ------------------------------------------------------------------------
\* The two recommend handlers side by side (specification Spec)
\* ------------------------------------------------------------------------
\* what the other implementation's chain computes from the same scored candidates
\* (same request, same provider responses, same novelty draws)
OtherImpl == IF impl = "api" THEN "server" ELSE "api"
OtherChain ==
    ConstraintChain(OtherImpl, chain.mapped, IntentNow, ProfileNow.keywords, MinStayNow,
                    req.allowRelax)

\* C29 (as claimed): the serverless handler and the Express handler select the same
\* candidates in the same order (so the same empty outcome, destination and top-3
\* alternates) and record the same relaxNotes.
C29_HandlersEquivalent ==
    Selected =>
        /\ OtherChain.rough = chain.rough
        /\ OtherChain.relaxNotes = chain.relaxNotes

\* C29, the part that holds: the two handlers agree whenever the dwell-time
\* relaxation step does not run.
C29_EquivalentWithoutRelaxation ==
    (Selected /\ ~(req.allowRelax /\ Step1Empty)) =>
        /\ OtherChain.rough = chain.rough
        /\ OtherChain.relaxNotes = chain.relaxNotes

\* ------------------------------------------------------------------------
\* The side quest shown next to a recommendation (specification SpecUi)
\* ------------------------------------------------------------------------
\* C30 (as claimed): whenever eggData is eligible and data is a recommendation with a
\* destination, eggData.egg.verify.destLocation equals data.result.location; and a
\* verifyEgg request is sent for the destination shown at that moment.
C30_EggMatchesRecommendation ==
    /\ (eggData.present /\ eggData.eligible /\ HasResult)
          => eggData.destLocation = data.location
    /\ verifyCall.sent => verifyCall.dest = verifyCall.shown

\* C30, the part that holds: the destination of an eligible side quest is always the
\* destination of a recommendation the server returned in this session.
C30_EggDestinationIsKnown ==
    (eggData.present /\ eggData.eligible) => eggData.destLocation \in UiLocations
====
